---- MODULE Spec2Model ----
(***************************************************************************)
(* A model of the n-gram corpus engine of armchr/bot-go: the interning     *)
(* n-gram trie with its bloom gate, the trie-based model (Add,             *)
(* Probability, CrossEntropy), the corpus manager (AddFile, UpdateFile,    *)
(* RemoveFile), the gob persistence codec, and the locking of models,      *)
(* tokenizers and the model file.                                          *)
(*                                                                         *)
(* One specification per component:                                        *)
(*   SpecTrie       one NGramTrie under Insert / Remove / Prune            *)
(*   SpecModel      one NGramModelTrie under Add                           *)
(*   Spec           a CorpusManager with its persistence                   *)
(*   SpecLock       Add racing a Probability reader on one model           *)
(*   SpecTokenizer  threads entering Tokenize of shared tokenizers         *)
(*   SpecFile       saveToFile racing ModelExists / loadFromFile           *)
(*   SpecStream     LoadCorpusManager on well-formed and damaged files     *)
(*   SpecSmooth     one call of a smoother                                 *)
(*   SpecModelOps   one NGramModelTrie under Add / Remove / Prune          *)
(*   SpecZ          one call of interpretZScore                            *)
(*   SpecIngest     ProcessRepository, a cancelling caller, and queries    *)
(*   SpecIntern     the interning table of a trie                          *)
(*   SpecUpdate     UpdateFile racing GetFileEntropy / GetFileModel        *)
(*   SpecMapModel   the map-based NGramModel: CrossEntropy racing writers  *)
(***************************************************************************)
EXTENDS Integers, Sequences, FiniteSets, TLC

VARIABLES
    trie, hist,                 \* SpecTrie: the trie and the record of the calls made on it
    model, mhist,               \* SpecModel: the model and the streams added to it
    cm, disk, loaded, chist,    \* Spec: corpus manager, model file, loaded manager, call record
    lk,                         \* SpecLock: writer and reader positions over one model
    tk,                         \* SpecTokenizer: threads and tokenizer mutexes
    fs,                         \* SpecFile: the model file and the processes using it
    fn,                         \* one call of a function: its arguments and its result
    ing,                        \* SpecIngest: ProcessRepository, its workers and the caller's context
    pr                          \* callers racing on one lock: their positions and the lock

trieVars == <<trie, hist>>
modelVars == <<model, mhist>>
corpusVars == <<cm, disk, loaded, chist>>
vars == <<trie, hist, model, mhist, cm, disk, loaded, chist, lk, tk, fs, fn, ing, pr>>

(***************************************************************************)
(* Bounds of the model.                                                    *)
(***************************************************************************)
MaxNGramLen == 2        \* longest n-gram handed to the bare trie
MaxTrieOps == 4         \* calls made on the bare trie
KeyBits == 4            \* bits kept of the 64-bit FNV-1a n-gram key
BloomM == 7             \* bits of the bloom filter
BloomK == 2             \* hash locations per key
MaxOrder == 3           \* largest n-gram order n of a model
MaxStreamLen == 3       \* longest token stream handed to Add
MaxModelOps == 2        \* calls made on the bare model
MaxCorpusOps == 3       \* calls made on the corpus manager
MaxCorpusOrder == 2     \* largest n-gram order n of a corpus manager
MaxLockAdds == 2        \* Add calls of the writer that races the reader
MaxTokenizeCalls == 2   \* Tokenize calls made by each thread
FileChunks == 2         \* writes the encoder makes for one model
MaxSaves == 3           \* saves of the model file
MaxCrashes == 1         \* saves interrupted midway
MaxSmoothCount == 3     \* largest n-gram and context count handed to a smoother
MaxSmoothVocab == 3     \* largest vocabulary size handed to a smoother
MaxMixedOps == 3        \* Add, Remove and Prune calls made on one model
MaxZNum == 12           \* largest numerator of a z-score, over 1, 2 or 4
MaxRepoFiles == 3       \* files of the repository ProcessRepository walks
MaxMapWrites == 2       \* Add, Remove and Merge calls on the map-based model
MaxMapReads == 2        \* CrossEntropy calls on the map-based model
MaxReads == 2           \* GetFileEntropy / GetFileModel calls racing the updates
MaxUpdates == 2         \* UpdateFile calls racing the readers
MaxInternOps == 3       \* Insert, Remove and Prune calls made on the interning trie

(***************************************************************************)
(* Tokens.  Normalized tokens are strings; the bloom key hashes their      *)
(* bytes.                                                                  *)
(***************************************************************************)
ROOT == "<ROOT>"

TokenBytes(t) ==
    CASE t = "ID" -> <<73, 68>>
      [] t = "NUM" -> <<78, 85, 77>>
      [] t = "NIL" -> <<78, 73, 76>>
      [] t = "func" -> <<102, 117, 110, 99>>
      [] t = "return" -> <<114, 101, 116, 117, 114, 110>>
      [] t = "(" -> <<40>>
      [] t = ")" -> <<41>>
      [] t = "{" -> <<123>>
      [] t = "}" -> <<125>>
      [] t = "<ROOT>" -> <<60, 82, 79, 79, 84, 62>>
      [] t = "1" -> <<49>>
      [] t = "2.0" -> <<50, 46, 48>>
      [] OTHER -> <<63>>

Tokens == {"ID", "func"}

RECURSIVE SeqsUpTo(_, _)
SeqsUpTo(S, k) ==
    IF k = 0 THEN {<<>>}
    ELSE LET shorter == SeqsUpTo(S, k - 1)
         IN shorter \cup {Append(s, x) : s \in shorter, x \in S}

NGrams == SeqsUpTo(Tokens, MaxNGramLen)

Max(a, b) == IF a >= b THEN a ELSE b

RECURSIVE Pow2(_)
Pow2(k) == IF k = 0 THEN 1 ELSE 2 * Pow2(k - 1)

(***************************************************************************)
(* tokensToKey: FNV-1a over the token bytes with a zero byte after each    *)
(* token.  XOR and multiplication modulo 2^64 preserve the low bits, so    *)
(* running the hash modulo 2^KeyBits yields exactly the low KeyBits bits   *)
(* of the real key.                                                        *)
(***************************************************************************)
FNVOffsetLow == 805     \* low 12 bits of the offset basis 0xcbf29ce484222325
FNVPrimeLow == 435      \* low 12 bits of the prime 0x100000001b3

RECURSIVE BitXor(_, _)
BitXor(a, b) ==
    IF a = 0 THEN b
    ELSE IF b = 0 THEN a
    ELSE (((a % 2) + (b % 2)) % 2) + 2 * BitXor(a \div 2, b \div 2)

fnvWrite(h, byte) == (BitXor(h, byte % Pow2(KeyBits)) * FNVPrimeLow) % Pow2(KeyBits)

RECURSIVE fnvWriteAll(_, _)
fnvWriteAll(h, bytes) ==
    IF bytes = <<>> THEN h ELSE fnvWriteAll(fnvWrite(h, Head(bytes)), Tail(bytes))

RECURSIVE fnvTokens(_, _)
fnvTokens(h, tokens) ==
    IF tokens = <<>> THEN h
    ELSE fnvTokens(fnvWrite(fnvWriteAll(h, TokenBytes(Head(tokens))), 0), Tail(tokens))

tokensToKey(tokens) == fnvTokens(FNVOffsetLow % Pow2(KeyBits), tokens)

(***************************************************************************)
(* The bloom filter (bits-and-blooms/bloom): a bit set; a key owns BloomK  *)
(* locations h1 + i*h2 mod m.  TestString holds when all of them are set.  *)
(***************************************************************************)
bloomLocations(key) == {(key + i * (2 * key + 1)) % BloomM : i \in 0 .. BloomK - 1}

TestString(filter, key) == bloomLocations(key) \subseteq filter

AddString(filter, key) == filter \cup bloomLocations(key)

(***************************************************************************)
(* NGramTrie.  root maps a path of token ids to the count of the node at   *)
(* its end; the paths are prefix closed and <<>> is the root node.         *)
(* idToToken[i + 1] is the token of id i.                                  *)
(***************************************************************************)
NewNGramTrieWithBloom(useBloom) ==
    [root |-> (<<>> :> 0),
     tokenToID |-> <<>>,
     idToToken |-> <<ROOT>>,
     nextID |-> 1,
     totalTokens |-> 0,
     totalNGrams |-> 0,
     useBloom |-> useBloom,
     bloomFilter |-> {}]

NewNGramTrie == NewNGramTrieWithBloom(FALSE)

internToken(t, token) ==
    IF token \in DOMAIN t.tokenToID THEN t
    ELSE [t EXCEPT !.nextID = t.nextID + 1,
                   !.tokenToID = t.tokenToID @@ (token :> t.nextID),
                   !.idToToken = Append(t.idToToken, token)]

RECURSIVE internAll(_, _)
internAll(t, tokens) ==
    IF tokens = <<>> THEN t ELSE internAll(internToken(t, Head(tokens)), Tail(tokens))

tokenIDs(t, tokens) == [i \in 1 .. Len(tokens) |-> t.tokenToID[tokens[i]]]

\* the nodes on the path that are missing are created with count 0
withPath(root, ids) ==
    LET missing == {SubSeq(ids, 1, k) : k \in 1 .. Len(ids)} \ DOMAIN root
    IN root @@ [p \in missing |-> 0]

\* Insert with the bloom gate left out: every occurrence reaches the trie
InsertNoGate(t, tokens) ==
    IF Len(tokens) = 0 THEN t
    ELSE LET t1 == internAll(t, tokens)
             ids == tokenIDs(t1, tokens)
             r == withPath(t1.root, ids)
         IN [t1 EXCEPT !.root = [r EXCEPT ![ids] = r[ids] + 1],
                       !.totalNGrams = t1.totalNGrams + 1,
                       !.bloomFilter = IF t.useBloom
                                       THEN AddString(t.bloomFilter, tokensToKey(tokens))
                                       ELSE t.bloomFilter]

Insert(t, tokens) ==
    IF Len(tokens) = 0 THEN t
    ELSE IF t.useBloom /\ ~TestString(t.bloomFilter, tokensToKey(tokens))
    THEN [t EXCEPT !.bloomFilter = AddString(t.bloomFilter, tokensToKey(tokens))]
    ELSE LET t1 == internAll(t, tokens)
             ids == tokenIDs(t1, tokens)
             r == withPath(t1.root, ids)
         IN [t1 EXCEPT !.root = [r EXCEPT ![ids] = r[ids] + 1],
                       !.totalNGrams = t1.totalNGrams + 1]

GetCount(t, tokens) ==
    IF Len(tokens) = 0 THEN 0
    ELSE IF \E i \in 1 .. Len(tokens) : tokens[i] \notin DOMAIN t.tokenToID THEN 0
    ELSE IF tokenIDs(t, tokens) \notin DOMAIN t.root THEN 0
    ELSE t.root[tokenIDs(t, tokens)]

\* Remove with the floor at 0 left out
RemoveNoFloor(t, tokens) ==
    IF Len(tokens) = 0 THEN t
    ELSE IF \E i \in 1 .. Len(tokens) : tokens[i] \notin DOMAIN t.tokenToID THEN t
    ELSE IF tokenIDs(t, tokens) \notin DOMAIN t.root THEN t
    ELSE LET ids == tokenIDs(t, tokens)
         IN [t EXCEPT !.root[ids] = @ - 1, !.totalNGrams = @ - 1]

Remove(t, tokens) ==
    IF Len(tokens) = 0 THEN t
    ELSE IF \E i \in 1 .. Len(tokens) : tokens[i] \notin DOMAIN t.tokenToID THEN t
    ELSE IF tokenIDs(t, tokens) \notin DOMAIN t.root THEN t
    ELSE LET ids == tokenIDs(t, tokens)
         IN IF t.root[ids] > 0
            THEN [t EXCEPT !.root[ids] = @ - 1, !.totalNGrams = @ - 1]
            ELSE t

VocabularySize(t) == Cardinality(DOMAIN t.tokenToID)

TotalNGrams(t) == t.totalNGrams

(***************************************************************************)
(* Prune: post-order; a child is deleted when, after its own subtree was   *)
(* pruned, its count is below minCount and it has no children left; a      *)
(* count below minCount but above 0 is cleared and deducted.               *)
(***************************************************************************)
children(root, p) ==
    {q \in DOMAIN root : Len(q) = Len(p) + 1 /\ SubSeq(q, 1, Len(p)) = p}

dropNode(root, p) == [q \in DOMAIN root \ {p} |-> root[q]]

RECURSIVE pruneNode(_, _, _)
RECURSIVE pruneChildren(_, _, _, _)
\* st = [root, totalNGrams, pruned]; todo = the children of the node still to visit
pruneChildren(st, todo, p, minCount) ==
    IF todo = {} THEN st
    ELSE LET child == CHOOSE c \in todo : TRUE
             s1 == pruneNode(st, child, minCount)
             s2 == IF s1.root[child] < minCount /\ children(s1.root, child) = {}
                   THEN [root |-> dropNode(s1.root, child),
                         totalNGrams |-> IF s1.root[child] > 0
                                         THEN s1.totalNGrams - s1.root[child]
                                         ELSE s1.totalNGrams,
                         pruned |-> IF s1.root[child] > 0
                                    THEN s1.pruned + s1.root[child]
                                    ELSE s1.pruned]
                   ELSE s1
         IN pruneChildren(s2, todo \ {child}, p, minCount)

pruneNode(st, p, minCount) ==
    LET s1 == pruneChildren(st, children(st.root, p), p, minCount)
    IN IF s1.root[p] < minCount /\ s1.root[p] > 0
       THEN [root |-> [s1.root EXCEPT ![p] = 0],
             totalNGrams |-> s1.totalNGrams - s1.root[p],
             pruned |-> s1.pruned + s1.root[p]]
       ELSE s1

PruneResult(t, minCount) ==
    pruneNode([root |-> t.root, totalNGrams |-> t.totalNGrams, pruned |-> 0],
              <<>>, minCount)

\* Prune that drops the nodes and leaves totalNGrams as it was
PruneKeepTotal(t, minCount) ==
    [t EXCEPT !.root = PruneResult(t, minCount).root]

\* Prune that also takes the n-grams whose count equals minCount
PruneInclusive(t, minCount) ==
    [t EXCEPT !.root = PruneResult(t, minCount + 1).root,
              !.totalNGrams = PruneResult(t, minCount + 1).totalNGrams]

Prune(t, minCount) ==
    [t EXCEPT !.root = PruneResult(t, minCount).root,
              !.totalNGrams = PruneResult(t, minCount).totalNGrams]

(***************************************************************************)
(* SpecTrie: one trie, with or without bloom, under Insert, Remove and     *)
(* Prune.  hist records the calls: ins[g] and rem[g] count the calls per   *)
(* n-gram, run[g] is the count that Insert raises by one and Remove        *)
(* lowers by one unless it is 0, fp holds the n-grams whose first Insert   *)
(* found its key already in the bloom filter.                              *)
(***************************************************************************)
PruneArgs == {1, 2}

InitHist ==
    [ins |-> [g \in NGrams |-> 0],
     rem |-> [g \in NGrams |-> 0],
     run |-> [g \in NGrams |-> 0],
     fp |-> {},
     removed |-> FALSE,
     pruned |-> FALSE,
     steps |-> 0]

InitTrie ==
    /\ \E b \in BOOLEAN : trie = NewNGramTrieWithBloom(b)
    /\ hist = InitHist
    /\ model = 0 /\ mhist = 0
    /\ cm = 0 /\ disk = 0 /\ loaded = 0 /\ chist = 0
    /\ lk = 0 /\ tk = 0 /\ fs = 0 /\ fn = 0 /\ ing = 0 /\ pr = 0

TrieInsert ==
    \E g \in NGrams :
        /\ hist.steps < MaxTrieOps
        /\ trie' = Insert(trie, g)
        /\ hist' = [hist EXCEPT
                      !.ins[g] = @ + 1,
                      !.run[g] = @ + 1,
                      !.fp = IF /\ trie.useBloom
                                /\ Len(g) > 0
                                /\ hist.ins[g] = 0
                                /\ TestString(trie.bloomFilter, tokensToKey(g))
                             THEN @ \cup {g} ELSE @,
                      !.steps = @ + 1]
        /\ UNCHANGED <<model, mhist, cm, disk, loaded, chist, lk, tk, fs, fn, ing, pr>>

TrieRemove ==
    \E g \in NGrams :
        /\ hist.steps < MaxTrieOps
        /\ trie' = Remove(trie, g)
        /\ hist' = [hist EXCEPT
                      !.rem[g] = @ + 1,
                      !.run[g] = Max(0, @ - 1),
                      !.removed = TRUE,
                      !.steps = @ + 1]
        /\ UNCHANGED <<model, mhist, cm, disk, loaded, chist, lk, tk, fs, fn, ing, pr>>

TriePrune ==
    \E m \in PruneArgs :
        /\ hist.steps < MaxTrieOps
        /\ trie' = Prune(trie, m)
        /\ hist' = [hist EXCEPT !.pruned = TRUE, !.steps = @ + 1]
        /\ UNCHANGED <<model, mhist, cm, disk, loaded, chist, lk, tk, fs, fn, ing, pr>>

NextTrie == TrieInsert \/ TrieRemove \/ TriePrune

SpecTrie == InitTrie /\ [][NextTrie]_vars

ProperNGrams == {g \in NGrams : Len(g) > 0}

\* C2 as stated: without bloom, after Inserts and Removes only, the count of
\* every n-gram is the number of its Inserts minus the number of its Removes,
\* floored at 0.
C2_InsertsMinusRemoves ==
    (~trie.useBloom /\ ~hist.pruned) =>
        \A g \in ProperNGrams : GetCount(trie, g) = Max(0, hist.ins[g] - hist.rem[g])

\* C2 amended: without bloom, after Inserts and Removes only, the count of
\* every n-gram is the running count that each Insert raises by one and each
\* Remove lowers by one unless it is already 0 (the floor applies at every
\* Remove, not to the final difference).
C2_RunningCount ==
    (~trie.useBloom /\ ~hist.pruned) =>
        \A g \in ProperNGrams : GetCount(trie, g) = hist.run[g]

\* C2 witness: an n-gram removed at count 0 and inserted afterwards.
C2_Witness ==
    /\ ~trie.useBloom /\ ~hist.pruned
    /\ \E g \in ProperNGrams :
          /\ hist.ins[g] = 2 /\ hist.rem[g] = 2
          /\ GetCount(trie, g) = 1

\* C3: with bloom, after c Inserts of g and no Remove or Prune, the count of g
\* is c - 1 (0 for c = 1) unless the first Insert of g hit a bloom false
\* positive, in which case it is c; it is never below c - 1 nor above c.
C3_BloomCount ==
    (trie.useBloom /\ ~hist.removed /\ ~hist.pruned) =>
        \A g \in ProperNGrams :
            LET c == hist.ins[g]
                n == GetCount(trie, g)
            IN /\ c = 0 => n = 0
               /\ (c >= 1 /\ g \notin hist.fp) => n = c - 1
               /\ (c >= 1 /\ g \in hist.fp) => n = c

\* C3 witness: three Inserts of one n-gram, another n-gram inserted as well,
\* no false positive, count 2.
C3_Witness ==
    /\ trie.useBloom /\ ~hist.removed /\ ~hist.pruned
    /\ \E g, h \in ProperNGrams :
          /\ g # h /\ hist.ins[g] = 3 /\ hist.ins[h] = 1
          /\ g \notin hist.fp
          /\ GetCount(trie, g) = 2

\* a false positive is reachable: the first Insert of an n-gram is counted
C3_FalsePositiveSeen ==
    \E g \in ProperNGrams : g \in hist.fp /\ hist.ins[g] = 1 /\ GetCount(trie, g) = 1

(***************************************************************************)
(* Smoothers.  A probability is a fraction [num, den] in lowest terms;     *)
(* den = 0 stands for the +Inf that 1.0 / float64(0) yields.               *)
(***************************************************************************)
RECURSIVE GCD(_, _)
GCD(a, b) == IF b = 0 THEN a ELSE GCD(b, a % b)

Frac(a, b) ==
    IF b = 0 THEN [num |-> 1, den |-> 0]
    ELSE IF a = 0 THEN [num |-> 0, den |-> 1]
    ELSE [num |-> a \div GCD(a, b), den |-> b \div GCD(a, b)]

Smoothers == {"AddK", "WittenBell"}

\* AddKSmoother with k = 1.0, as every constructor call in the repository sets it
AddKSmooth(ngramCount, contextCount, vocabularySize) ==
    IF contextCount = 0 THEN Frac(1, vocabularySize)
    ELSE Frac(ngramCount + 1, contextCount + vocabularySize)

\* backoffProb is 1/V, or 0 for V = 0
WittenBellSmooth(ngramCount, contextCount, vocabularySize) ==
    IF contextCount = 0 THEN Frac(1, vocabularySize)
    ELSE IF ngramCount > 0
    THEN Frac(contextCount * ngramCount, (contextCount + vocabularySize) * contextCount)
    ELSE IF vocabularySize = 0 THEN Frac(0, 1)
    ELSE Frac(vocabularySize, (contextCount + vocabularySize) * vocabularySize)

Smooth(smoother, ngramCount, contextCount, vocabularySize) ==
    IF smoother = "WittenBell"
    THEN WittenBellSmooth(ngramCount, contextCount, vocabularySize)
    ELSE AddKSmooth(ngramCount, contextCount, vocabularySize)

(***************************************************************************)
(* NGramModelTrie.                                                         *)
(***************************************************************************)
NewNGramModelTrieWithBloom(n, smoother, useBloom) ==
    [n |-> IF n < 1 THEN 3 ELSE n,
     ngramTrie |-> NewNGramTrieWithBloom(useBloom),
     contextTrie |-> NewNGramTrieWithBloom(useBloom),
     vocabulary |-> NewNGramTrieWithBloom(FALSE),
     totalTokens |-> 0,
     smoother |-> smoother]

NewNGramModelTrie(n, smoother) == NewNGramModelTrieWithBloom(n, smoother, FALSE)

\* the windows stop one short of the end of the stream
extractNGramsDropLast(n, tokens) ==
    IF Len(tokens) = 0 THEN <<>>
    ELSE IF Len(tokens) < n THEN <<tokens>>
    ELSE [i \in 1 .. Len(tokens) - n |-> SubSeq(tokens, i, i + n - 1)]

extractNGrams(n, tokens) ==
    IF Len(tokens) = 0 THEN <<>>
    ELSE IF Len(tokens) < n THEN <<tokens>>
    ELSE [i \in 1 .. Len(tokens) - n + 1 |-> SubSeq(tokens, i, i + n - 1)]

RECURSIVE insertUnigrams(_, _)
insertUnigrams(vocabulary, tokens) ==
    IF tokens = <<>> THEN vocabulary
    ELSE insertUnigrams(Insert(vocabulary, <<Head(tokens)>>), Tail(tokens))

RECURSIVE insertNGrams(_, _)
insertNGrams(m, ngrams) ==
    IF ngrams = <<>> THEN m
    ELSE LET ng == Head(ngrams)
             m1 == [m EXCEPT !.ngramTrie = Insert(m.ngramTrie, ng)]
             m2 == IF Len(ng) > 1
                   THEN [m1 EXCEPT !.contextTrie =
                                      Insert(m1.contextTrie, SubSeq(ng, 1, Len(ng) - 1))]
                   ELSE m1
         IN insertNGrams(m2, Tail(ngrams))

Add(m, tokens) ==
    IF Len(tokens) = 0 THEN m
    ELSE insertNGrams([m EXCEPT !.totalTokens = m.totalTokens + Len(tokens),
                                !.vocabulary = insertUnigrams(m.vocabulary, tokens)],
                      extractNGrams(m.n, tokens))

\* ng = append(context, token), cut to its last n tokens
Probability(m, token, context) ==
    LET full == Append(context, token)
        ng == IF Len(full) > m.n THEN SubSeq(full, Len(full) - m.n + 1, Len(full)) ELSE full
        ngramCount == GetCount(m.ngramTrie, ng)
        contextCount == IF Len(ng) > 1
                        THEN GetCount(m.contextTrie, SubSeq(ng, 1, Len(ng) - 1))
                        ELSE 0
    IN Smooth(m.smoother, ngramCount, contextCount, VocabularySize(m.vocabulary))

\* the context of position i (1-based): tokens[contextStart : i] of the source
contextAt(n, tokens, i) ==
    LET contextStart == IF i - 1 >= n - 1 THEN i - n + 1 ELSE 1
    IN SubSeq(tokens, contextStart, i - 1)

(***************************************************************************)
(* CrossEntropy.  The value -(sum of log2 p) / count is kept exactly as    *)
(* [num, den, cnt]: the product of the probabilities p > 0 in lowest       *)
(* terms and their number; cnt = 0 is the value 0.0 and den = 0 is -Inf    *)
(* (a +Inf probability was accumulated).                                   *)
(***************************************************************************)
EntropyZero == [num |-> 1, den |-> 1, cnt |-> 0]

RECURSIVE accumulate(_, _, _, _)
accumulate(m, tokens, i, acc) ==
    IF i > Len(tokens) THEN acc
    ELSE LET prob == Probability(m, tokens[i], contextAt(m.n, tokens, i))
         IN IF prob.den = 0
            THEN accumulate(m, tokens, i + 1,
                            [num |-> 1, den |-> 0, cnt |-> acc.cnt + 1])
            ELSE IF prob.num > 0
            THEN accumulate(m, tokens, i + 1,
                            IF acc.den = 0 THEN [acc EXCEPT !.cnt = @ + 1]
                            ELSE [num |-> Frac(acc.num * prob.num, acc.den * prob.den).num,
                                  den |-> Frac(acc.num * prob.num, acc.den * prob.den).den,
                                  cnt |-> acc.cnt + 1])
            ELSE accumulate(m, tokens, i + 1, acc)

CrossEntropy(m, tokens) ==
    IF Len(tokens) = 0 THEN EntropyZero
    ELSE LET acc == accumulate(m, tokens, 1, EntropyZero)
         IN IF acc.cnt = 0 THEN EntropyZero
            ELSE IF acc.den # 0 /\ acc.num = acc.den THEN EntropyZero
            ELSE acc

(***************************************************************************)
(* SpecModel: one model of order n, with or without bloom, under Add.      *)
(* mhist.added is the sequence of the streams added.                       *)
(***************************************************************************)
Scenario1 == <<"func", "ID", "(", "ID", ")", "{", "return", "ID", "}">>

Streams == SeqsUpTo(Tokens, MaxStreamLen) \cup {Scenario1}

InitModel ==
    /\ \E n \in 0 .. MaxOrder, s \in Smoothers, b \in BOOLEAN :
          /\ model = NewNGramModelTrieWithBloom(n, s, b)
          /\ mhist = [added |-> <<>>, useBloom |-> b]
    /\ trie = 0 /\ hist = 0
    /\ cm = 0 /\ disk = 0 /\ loaded = 0 /\ chist = 0
    /\ lk = 0 /\ tk = 0 /\ fs = 0 /\ fn = 0 /\ ing = 0 /\ pr = 0

ModelAdd ==
    \E tokens \in Streams :
        /\ Len(mhist.added) < MaxModelOps
        /\ model' = Add(model, tokens)
        /\ mhist' = [mhist EXCEPT !.added = Append(@, tokens)]
        /\ UNCHANGED <<trie, hist, cm, disk, loaded, chist, lk, tk, fs, fn, ing, pr>>

NextModel == ModelAdd

SpecModel == InitModel /\ [][NextModel]_vars

Probes ==
    SeqsUpTo(Tokens, MaxOrder)
        \cup {SubSeq(Scenario1, i, j) : i \in 1 .. Len(Scenario1), j \in 1 .. Len(Scenario1)}

\* the number of size-n windows of tokens equal to g; a stream shorter than n
\* counts once, as itself
WindowsEqual(tokens, n, g) ==
    IF Len(tokens) = 0 THEN 0
    ELSE IF Len(tokens) < n THEN (IF g = tokens THEN 1 ELSE 0)
    ELSE Cardinality({i \in 1 .. Len(tokens) - n + 1 : SubSeq(tokens, i, i + n - 1) = g})

\* the number of extracted n-grams longer than 1 whose prefix without the
\* last token is c
PrefixesEqual(tokens, n, c) ==
    IF Len(tokens) = 0 THEN 0
    ELSE IF Len(tokens) < n
    THEN (IF Len(tokens) > 1 /\ c = SubSeq(tokens, 1, Len(tokens) - 1) THEN 1 ELSE 0)
    ELSE IF n = 1 THEN 0
    ELSE Cardinality({i \in 1 .. Len(tokens) - n + 1 : SubSeq(tokens, i, i + n - 2) = c})

DistinctTokens(tokens) == {tokens[i] : i \in 1 .. Len(tokens)}

\* C4: after one Add(tokens) on a fresh model without bloom, n-gram counts are
\* the numbers of equal size-n windows (a stream shorter than n is one n-gram),
\* context counts the numbers of extracted n-grams with that prefix, the
\* vocabulary size the number of distinct tokens, total_tokens the length; the
\* literal stream of nine tokens with n = 3 gives 1, 1, 7 and 9.
C4_AddCounts ==
    (~mhist.useBloom /\ Len(mhist.added) = 1) =>
        LET tokens == mhist.added[1]
        IN /\ \A g \in Probes :
                 /\ GetCount(model.ngramTrie, g) = WindowsEqual(tokens, model.n, g)
                 /\ GetCount(model.contextTrie, g) = PrefixesEqual(tokens, model.n, g)
           /\ VocabularySize(model.vocabulary) = Cardinality(DistinctTokens(tokens))
           /\ model.totalTokens = Len(tokens)
           /\ (tokens = Scenario1 /\ model.n = 3) =>
                 /\ GetCount(model.ngramTrie, <<"func", "ID", "(">>) = 1
                 /\ GetCount(model.contextTrie, <<"func", "ID">>) = 1
                 /\ VocabularySize(model.vocabulary) = 7
                 /\ model.totalTokens = 9

\* C4 witness: the literal stream added to a fresh trigram model without bloom
C4_Witness ==
    /\ ~mhist.useBloom /\ mhist.added = <<Scenario1>> /\ model.n = 3
    /\ GetCount(model.ngramTrie, <<"func", "ID", "(">>) = 1
    /\ GetCount(model.contextTrie, <<"ID", "(">>) = 1
    /\ model.totalTokens = 9

(***************************************************************************)
(* Tokenizers.  A source is the leaf stream its syntax tree yields, in     *)
(* document order, or a source the parser returns no tree for.             *)
(***************************************************************************)
Leaf(type, value) == [Type |-> type, Value |-> value]

SrcFunc == [parses |-> TRUE,
            leaves |-> <<Leaf("func", "func"), Leaf("identifier", "x"),
                         Leaf("comment", "// c"), Leaf("identifier", "y"),
                         Leaf("identifier", "")>>]

SrcNums == [parses |-> TRUE,
            leaves |-> <<Leaf("int_literal", "1"), Leaf("float_literal", "2.0"),
                         Leaf("int_literal", "1"), Leaf("int_literal", "1")>>]

SrcBroken == [parses |-> FALSE, leaves |-> <<>>]

Sources == {SrcFunc, SrcNums, SrcBroken}

Languages == {"go", "python", "cobol"}

Registered == {"go", "python"}

Paths == {"a", "b"}

\* traverseNode: one token per leaf, empty leaves and comments skipped
RECURSIVE traverseNode(_)
traverseNode(leaves) ==
    IF leaves = <<>> THEN <<>>
    ELSE IF Head(leaves).Value = "" \/ Head(leaves).Type = "comment"
    THEN traverseNode(Tail(leaves))
    ELSE <<Head(leaves)>> \o traverseNode(Tail(leaves))

\* Tokenize: [ok, tokens]; parser.Parse returning nil is the error
Tokenize(source) ==
    IF ~source.parses THEN [ok |-> FALSE, tokens |-> <<>>]
    ELSE [ok |-> TRUE, tokens |-> traverseNode(source.leaves)]

GoNormalize(token) ==
    CASE token.Type = "identifier" -> "ID"
      [] token.Type \in {"int_literal", "float_literal", "imaginary_literal"} -> "NUM"
      [] token.Type \in {"raw_string_literal", "interpreted_string_literal"} -> "STR"
      [] token.Type = "rune_literal" -> "CHAR"
      [] token.Type \in {"true", "false"} -> "BOOL"
      [] token.Type = "nil" -> "NIL"
      [] OTHER -> token.Value

PythonNormalize(token) ==
    CASE token.Type = "identifier" -> "ID"
      [] token.Type \in {"integer", "float"} -> "NUM"
      [] token.Type = "string" -> "STR"
      [] token.Type \in {"true", "false", "True", "False"} -> "BOOL"
      [] token.Type \in {"none", "None"} -> "NONE"
      [] OTHER -> token.Value

Normalize(language, token) ==
    IF language = "python" THEN PythonNormalize(token) ELSE GoNormalize(token)

normalizeAll(language, tokenSeq) ==
    [i \in 1 .. Len(tokenSeq) |-> Normalize(language, tokenSeq[i])]

(***************************************************************************)
(* CorpusManager.  A result is [cm, err]; err = "" is success.             *)
(***************************************************************************)
NewCorpusManagerWithOptions(n, smoother, useBloom) ==
    [n |-> IF n < 1 THEN 3 ELSE n,
     smoother |-> smoother,
     useBloom |-> useBloom,
     globalModel |-> NewNGramModelTrieWithBloom(IF n < 1 THEN 3 ELSE n, smoother, useBloom),
     fileModels |-> <<>>]

\* the entropy is taken under the global model instead of the file's own
fileEntropyGlobal(c, tokens) == CrossEntropy(Add(c.globalModel, tokens), tokens)

\* a fresh model of the file's tokens alone, and their entropy under it
fileEntropy(c, tokens) ==
    CrossEntropy(Add(NewNGramModelTrieWithBloom(c.n, c.smoother, c.useBloom), tokens), tokens)

installFile(c, filePath, language, tokens) ==
    [c EXCEPT !.globalModel = Add(c.globalModel, tokens),
              !.fileModels = [q \in DOMAIN c.fileModels \cup {filePath} |->
                                 IF q = filePath
                                 THEN [FilePath |-> filePath,
                                       Language |-> language,
                                       TokenCount |-> Len(tokens),
                                       Entropy |-> fileEntropy(c, tokens)]
                                 ELSE c.fileModels[q]]]

\* AddFile that stores an entry before it tokenizes and leaves it on failure
AddFileEarlyInstall(c, filePath, source, language) ==
    IF language \notin Registered \/ ~Tokenize(source).ok
    THEN [cm |-> [c EXCEPT !.fileModels =
                      [q \in DOMAIN c.fileModels \cup {filePath} |->
                          IF q = filePath
                          THEN [FilePath |-> filePath, Language |-> language,
                                TokenCount |-> 0, Entropy |-> EntropyZero]
                          ELSE c.fileModels[q]]],
          err |-> IF language \notin Registered THEN "no tokenizer found"
                  ELSE "tokenization failed"]
    ELSE [cm |-> installFile(c, filePath, language,
                             normalizeAll(language, Tokenize(source).tokens)),
          err |-> ""]

\* UpdateFile on a path that is present (on an absent one it is AddFile)
updatePresent(c, filePath, source, language) ==
    IF language \notin Registered THEN [cm |-> c, err |-> "no tokenizer found"]
    ELSE IF ~Tokenize(source).ok THEN [cm |-> c, err |-> "tokenization failed"]
    ELSE [cm |-> installFile(c, filePath, language,
                             normalizeAll(language, Tokenize(source).tokens)),
          err |-> ""]

AddFile(c, filePath, source, language) ==
    IF language \notin Registered THEN [cm |-> c, err |-> "no tokenizer found"]
    ELSE IF ~Tokenize(source).ok THEN [cm |-> c, err |-> "tokenization failed"]
    ELSE IF filePath \in DOMAIN c.fileModels
    THEN updatePresent(c, filePath, source, language)
    ELSE [cm |-> installFile(c, filePath, language,
                             normalizeAll(language, Tokenize(source).tokens)),
          err |-> ""]

\* UpdateFile that replaces the entry and leaves the global model alone
UpdateFileSkipGlobal(c, filePath, source, language) ==
    IF filePath \notin DOMAIN c.fileModels
    THEN AddFile(c, filePath, source, language)
    ELSE LET r == updatePresent(c, filePath, source, language)
         IN [cm |-> [r.cm EXCEPT !.globalModel = c.globalModel], err |-> r.err]

UpdateFile(c, filePath, source, language) ==
    IF filePath \notin DOMAIN c.fileModels
    THEN AddFile(c, filePath, source, language)
    ELSE updatePresent(c, filePath, source, language)

\* RemoveFile that also takes the file's token count off the global model
RemoveFileRewind(c, filePath) ==
    IF filePath \notin DOMAIN c.fileModels THEN [cm |-> c, err |-> "file not found"]
    ELSE [cm |-> [c EXCEPT !.fileModels = [q \in DOMAIN c.fileModels \ {filePath} |->
                                              c.fileModels[q]],
                           !.globalModel.totalTokens =
                               Max(0, @ - c.fileModels[filePath].TokenCount)],
          err |-> ""]

RemoveFile(c, filePath) ==
    IF filePath \notin DOMAIN c.fileModels THEN [cm |-> c, err |-> "file not found"]
    ELSE [cm |-> [c EXCEPT !.fileModels = [q \in DOMAIN c.fileModels \ {filePath} |->
                                              c.fileModels[q]]],
          err |-> ""]

GetFileEntropy(c, filePath) ==
    IF filePath \notin DOMAIN c.fileModels
    THEN [value |-> EntropyZero, err |-> "file not found"]
    ELSE [value |-> c.fileModels[filePath].Entropy, err |-> ""]

(***************************************************************************)
(* Persistence codec.  A trie is flattened into serial nodes that name     *)
(* their children by serial id, and rebuilt from them.                     *)
(***************************************************************************)
RECURSIVE orderChildren(_)
orderChildren(S) ==
    IF S = {} THEN <<>>
    ELSE LET c == CHOOSE x \in S : \A y \in S : x[Len(x)] <= y[Len(y)]
         IN <<c>> \o orderChildren(S \ {c})

RECURSIVE flatten(_, _, _, _)
RECURSIVE flattenChildren(_, _, _, _, _)
\* the loop over node.children: each child takes the next serial id
flattenChildren(root, todo, nodeID, st, childrenIDs) ==
    IF todo = <<>> THEN [st |-> st, ChildrenIDs |-> childrenIDs]
    ELSE LET child == Head(todo)
         IN flattenChildren(root, Tail(todo), nodeID,
                            flatten(root, child, nodeID, st),
                            childrenIDs @@ (child[Len(child)] :> st.nextID))

\* ids are taken on entry, the node is appended after its children
flatten(root, p, parentID, st) ==
    LET nodeID == st.nextID
        r == flattenChildren(root, orderChildren(children(root, p)), nodeID,
                             [st EXCEPT !.nextID = @ + 1], <<>>)
    IN [nodes |-> Append(r.st.nodes,
                         [ID |-> nodeID,
                          TokenID |-> IF p = <<>> THEN 0 ELSE p[Len(p)],
                          Count |-> root[p],
                          ChildrenIDs |-> r.ChildrenIDs,
                          ParentID |-> parentID]),
        nextID |-> r.st.nextID]

flattenTrie(root) == flatten(root, <<>>, -1, [nodes |-> <<>>, nextID |-> 0]).nodes

serialIDs(nodes) == {nodes[i].ID : i \in 1 .. Len(nodes)}

\* nodeMap[id]: a later node of the same id replaces an earlier one
nodeMap(nodes, id) ==
    nodes[CHOOSE i \in 1 .. Len(nodes) :
              nodes[i].ID = id /\ \A j \in (i + 1) .. Len(nodes) : nodes[j].ID # id]

RECURSIVE connect(_, _, _, _)
\* the nodes reachable from serial id `id`, as <<path, count>> pairs; a child
\* id that names no node is skipped
connect(nodes, id, p, fuel) ==
    LET sNode == nodeMap(nodes, id)
    IN {<<p, sNode.Count>>} \cup
       (IF fuel = 0 THEN {}
        ELSE UNION {connect(nodes, sNode.ChildrenIDs[tokenID], Append(p, tokenID), fuel - 1) :
                       tokenID \in {t \in DOMAIN sNode.ChildrenIDs :
                                       sNode.ChildrenIDs[t] \in serialIDs(nodes)}})

reconstructTrie(nodes) ==
    IF Len(nodes) = 0 THEN (<<>> :> 0)
    ELSE IF 0 \notin serialIDs(nodes) THEN <<>>
    ELSE LET pairs == connect(nodes, 0, <<>>, Len(nodes))
         IN [q \in {x[1] : x \in pairs} |-> (CHOOSE x \in pairs : x[1] = q)[2]]

serializeTrieModel(trieModel, target) ==
    [target EXCEPT !.TotalTokens = trieModel.totalTokens,
                   !.SmootherName = trieModel.smoother,
                   !.TokenToID = trieModel.vocabulary.tokenToID,
                   !.IDToToken = trieModel.vocabulary.idToToken,
                   !.NGramTrieTotalNGrams = trieModel.ngramTrie.totalNGrams,
                   !.NGramTrieTotalTokens = trieModel.ngramTrie.totalTokens,
                   !.ContextTrieTotalNGrams = trieModel.contextTrie.totalNGrams,
                   !.ContextTrieTotalTokens = trieModel.contextTrie.totalTokens,
                   !.TrieNodes = flattenTrie(trieModel.ngramTrie.root),
                   !.VocabNodes = flattenTrie(trieModel.vocabulary.root),
                   !.ContextNodes = flattenTrie(trieModel.contextTrie.root)]

SaveCorpusManager(c) ==
    serializeTrieModel(c.globalModel,
        [Version |-> "1.0", N |-> c.n, UseTrie |-> TRUE, UseBloom |-> c.useBloom,
         FileMetadata |-> [q \in DOMAIN c.fileModels |->
                              [Path |-> q,
                               Language |-> c.fileModels[q].Language,
                               TokenCount |-> c.fileModels[q].TokenCount,
                               Entropy |-> c.fileModels[q].Entropy]],
         TotalTokens |-> 0, SmootherName |-> "",
         TokenToID |-> <<>>, IDToToken |-> <<>>,
         TrieNodes |-> <<>>, VocabNodes |-> <<>>, ContextNodes |-> <<>>,
         NGramTrieTotalNGrams |-> 0, NGramTrieTotalTokens |-> 0,
         ContextTrieTotalNGrams |-> 0, ContextTrieTotalTokens |-> 0])

\* the roots and the interning table are restored, the counters are not
deserializeRootsOnly(serial, c) ==
    [c EXCEPT !.globalModel.vocabulary.tokenToID = serial.TokenToID,
              !.globalModel.vocabulary.idToToken = serial.IDToToken,
              !.globalModel.vocabulary.nextID = Len(serial.IDToToken),
              !.globalModel.ngramTrie.root = reconstructTrie(serial.TrieNodes),
              !.globalModel.vocabulary.root = reconstructTrie(serial.VocabNodes),
              !.globalModel.contextTrie.root = reconstructTrie(serial.ContextNodes)]

\* only the vocabulary gets the interning table back
deserializeTrieModel(serial, c) ==
    [c EXCEPT !.globalModel.vocabulary.tokenToID = serial.TokenToID,
              !.globalModel.vocabulary.idToToken = serial.IDToToken,
              !.globalModel.vocabulary.nextID = Len(serial.IDToToken),
              !.globalModel.ngramTrie.root = reconstructTrie(serial.TrieNodes),
              !.globalModel.vocabulary.root = reconstructTrie(serial.VocabNodes),
              !.globalModel.contextTrie.root = reconstructTrie(serial.ContextNodes),
              !.globalModel.ngramTrie.totalNGrams = serial.NGramTrieTotalNGrams,
              !.globalModel.ngramTrie.totalTokens = serial.NGramTrieTotalTokens,
              !.globalModel.contextTrie.totalNGrams = serial.ContextTrieTotalNGrams,
              !.globalModel.contextTrie.totalTokens = serial.ContextTrieTotalTokens,
              !.globalModel.totalTokens = serial.TotalTokens]

LoadCorpusManager(serial) ==
    deserializeTrieModel(serial,
        [NewCorpusManagerWithOptions(serial.N,
             IF serial.SmootherName = "WittenBell" THEN "WittenBell" ELSE "AddK",
             serial.UseBloom)
         EXCEPT !.fileModels = [q \in DOMAIN serial.FileMetadata |->
                                   [FilePath |-> serial.FileMetadata[q].Path,
                                    Language |-> serial.FileMetadata[q].Language,
                                    TokenCount |-> serial.FileMetadata[q].TokenCount,
                                    Entropy |-> serial.FileMetadata[q].Entropy]]])

(***************************************************************************)
(* Spec: a corpus manager under AddFile / UpdateFile / RemoveFile, saved   *)
(* to the model file and loaded back.  chist records the calls: the last   *)
(* call and its error, per path the source and language of its latest      *)
(* successful add or update, every entropy ever cached for a source and    *)
(* language, and the global model as it was at the latest save.            *)
(***************************************************************************)
NoFile == [exists |-> FALSE]

InitCorpusHist ==
    [ops |-> 0,
     last |-> [op |-> "", path |-> "", language |-> "", parses |-> TRUE, err |-> ""],
     latest |-> <<>>,
     cached |-> {},
     installs |-> [q \in Paths |-> 0],
     removes |-> [q \in Paths |-> 0],
     saved |-> NoFile]

Init ==
    /\ \E n \in 1 .. MaxCorpusOrder, s \in Smoothers, b \in BOOLEAN :
          cm = NewCorpusManagerWithOptions(n, s, b)
    /\ disk = NoFile
    /\ loaded = NoFile
    /\ chist = InitCorpusHist
    /\ trie = 0 /\ hist = 0 /\ model = 0 /\ mhist = 0
    /\ lk = 0 /\ tk = 0 /\ fs = 0 /\ fn = 0 /\ ing = 0 /\ pr = 0

\* the call record after an add or update that returned r
noteInstall(h, op, filePath, source, language, r) ==
    IF r.err # ""
    THEN [h EXCEPT !.ops = @ + 1,
                   !.last = [op |-> op, path |-> filePath, language |-> language,
                             parses |-> source.parses, err |-> r.err]]
    ELSE [h EXCEPT !.ops = @ + 1,
                   !.last = [op |-> op, path |-> filePath, language |-> language,
                             parses |-> source.parses, err |-> ""],
                   !.latest = [q \in DOMAIN h.latest \cup {filePath} |->
                                  IF q = filePath
                                  THEN [source |-> source, language |-> language]
                                  ELSE h.latest[q]],
                   !.cached = @ \cup {[source |-> source, language |-> language,
                                       entropy |-> r.cm.fileModels[filePath].Entropy]},
                   !.installs[filePath] = @ + 1]

CorpusAddFile ==
    \E filePath \in Paths, source \in Sources, language \in Languages :
        /\ chist.ops < MaxCorpusOps
        /\ LET r == AddFile(cm, filePath, source, language)
           IN /\ cm' = r.cm
              /\ chist' = noteInstall(chist, "add", filePath, source, language, r)
        /\ UNCHANGED <<disk, loaded, trie, hist, model, mhist, lk, tk, fs, fn, ing, pr>>

CorpusUpdateFile ==
    \E filePath \in Paths, source \in Sources, language \in Languages :
        /\ chist.ops < MaxCorpusOps
        /\ LET r == UpdateFile(cm, filePath, source, language)
           IN /\ cm' = r.cm
              /\ chist' = noteInstall(chist, "update", filePath, source, language, r)
        /\ UNCHANGED <<disk, loaded, trie, hist, model, mhist, lk, tk, fs, fn, ing, pr>>

CorpusRemoveFile ==
    \E filePath \in Paths :
        /\ chist.ops < MaxCorpusOps
        /\ LET r == RemoveFile(cm, filePath)
           IN /\ cm' = r.cm
              /\ chist' = [chist EXCEPT
                             !.ops = @ + 1,
                             !.last = [op |-> "remove", path |-> filePath, language |-> "",
                                       parses |-> TRUE, err |-> r.err],
                             !.removes[filePath] = IF r.err = "" THEN @ + 1 ELSE @]
        /\ UNCHANGED <<disk, loaded, trie, hist, model, mhist, lk, tk, fs, fn, ing, pr>>

CorpusSave ==
    /\ chist.ops < MaxCorpusOps
    /\ disk' = [exists |-> TRUE, data |-> SaveCorpusManager(cm)]
    /\ chist' = [chist EXCEPT
                   !.ops = @ + 1,
                   !.last = [op |-> "save", path |-> "", language |-> "",
                             parses |-> TRUE, err |-> ""],
                   !.saved = [exists |-> TRUE, globalModel |-> cm.globalModel,
                              fileModels |-> cm.fileModels]]
    /\ UNCHANGED <<cm, loaded, trie, hist, model, mhist, lk, tk, fs, fn, ing, pr>>

CorpusLoad ==
    /\ chist.ops < MaxCorpusOps
    /\ IF disk.exists
       THEN /\ loaded' = [exists |-> TRUE, cm |-> LoadCorpusManager(disk.data)]
            /\ chist' = [chist EXCEPT
                           !.ops = @ + 1,
                           !.last = [op |-> "load", path |-> "", language |-> "",
                                     parses |-> TRUE, err |-> ""]]
       ELSE /\ loaded' = loaded
            /\ chist' = [chist EXCEPT
                           !.ops = @ + 1,
                           !.last = [op |-> "load", path |-> "", language |-> "",
                                     parses |-> TRUE, err |-> "no saved model found"]]
    /\ UNCHANGED <<cm, disk, trie, hist, model, mhist, lk, tk, fs, fn, ing, pr>>

Next ==
    \/ CorpusAddFile
    \/ CorpusUpdateFile
    \/ CorpusRemoveFile
    \/ CorpusSave
    \/ CorpusLoad

Spec == Init /\ [][Next]_vars

\* the normalized tokens the sources can yield, and the sequences probed
CorpusTokens == {"func", "ID", "NUM", "1", "2.0"}

CorpusProbes == SeqsUpTo(CorpusTokens, MaxCorpusOrder)

\* C1: right after a load, the loaded global model returns for every token
\* sequence the n-gram-trie count and the context-trie count that the saved
\* model returned
C1_RoundTripCounts ==
    (chist.last.op = "load" /\ chist.last.err = "") =>
        \A g \in CorpusProbes :
            /\ GetCount(loaded.cm.globalModel.ngramTrie, g)
                   = GetCount(chist.saved.globalModel.ngramTrie, g)
            /\ GetCount(loaded.cm.globalModel.contextTrie, g)
                   = GetCount(chist.saved.globalModel.contextTrie, g)

\* C5: the cached entropy of a path equals every entropy ever cached, for any
\* path and under any global model, for the source and language of the
\* path's latest successful add or update
C5_EntropyDetermined ==
    \A filePath \in DOMAIN cm.fileModels :
        \A s \in chist.cached :
            (s.source = chist.latest[filePath].source
                 /\ s.language = chist.latest[filePath].language)
                => GetFileEntropy(cm, filePath).value = s.entropy

\* a path added, removed and added again with the same source and language,
\* over a global model that grew in between, with a non-zero entropy
C5_Witness ==
    \E filePath \in DOMAIN cm.fileModels :
        /\ chist.installs[filePath] = 2
        /\ chist.removes[filePath] = 1
        /\ Cardinality(chist.cached) = 1
        /\ cm.fileModels[filePath].Entropy # EntropyZero
        /\ cm.globalModel.totalTokens = 2 * cm.fileModels[filePath].TokenCount

\* C6: a RemoveFile of a present path deletes that entry only and leaves the
\* other entries and the whole global model as they were; of an absent path,
\* it fails with file-not-found and changes nothing
C6_RemoveFrame ==
    [][(chist'.ops # chist.ops /\ chist'.last.op = "remove") =>
          IF chist'.last.path \in DOMAIN cm.fileModels
          THEN /\ chist'.last.err = ""
               /\ DOMAIN cm'.fileModels = DOMAIN cm.fileModels \ {chist'.last.path}
               /\ \A q \in DOMAIN cm'.fileModels : cm'.fileModels[q] = cm.fileModels[q]
               /\ cm'.globalModel = cm.globalModel
          ELSE /\ chist'.last.err = "file not found"
               /\ cm' = cm]_vars

\* a present path was just removed, another file remains, and the global
\* model still holds the tokens of both
C6_Witness ==
    /\ chist.last.op = "remove"
    /\ chist.last.err = ""
    /\ chist.last.path \notin DOMAIN cm.fileModels
    /\ DOMAIN cm.fileModels # {}
    /\ \E q \in DOMAIN cm.fileModels :
          cm.globalModel.totalTokens > cm.fileModels[q].TokenCount

\* C7: an add or update for a language without a tokenizer, or of a source
\* the tokenizer fails on, returns an error and leaves the file map and the
\* global model exactly as they were
C7_FailedInstallFrame ==
    [][(/\ chist'.ops # chist.ops
        /\ chist'.last.op \in {"add", "update"}
        /\ (chist'.last.language \notin Registered \/ ~chist'.last.parses)) =>
          /\ chist'.last.err \in {"no tokenizer found", "tokenization failed"}
          /\ cm'.fileModels = cm.fileModels
          /\ cm'.globalModel = cm.globalModel]_vars

\* an update of a present path has just failed in the tokenizer
C7_Witness ==
    /\ chist.last.op = "update"
    /\ chist.last.err = "tokenization failed"
    /\ chist.last.path \in DOMAIN cm.fileModels

(***************************************************************************)
(* SpecLock: one NGramModelTrie, a writer thread calling Add and a reader  *)
(* thread calling Probability.  The model's mutex is held for the          *)
(* totalTokens update only; every Insert and GetCount takes the lock of    *)
(* its own trie, so each of them is one step.  lk.before and lk.after are  *)
(* the model at the start of the latest Add and as that whole Add leaves   *)
(* it; lk.lin collects the models at the boundaries of whole Adds that the *)
(* reader's call overlaps.                                                 *)
(***************************************************************************)
LockStreams == SeqsUpTo(Tokens, 2)

LockOrders == {1, 2}

InitLock ==
    /\ \E n \in LockOrders, b \in BOOLEAN :
          lk = [m |-> NewNGramModelTrieWithBloom(n, "AddK", b),
                adds |-> 0,
                w |-> [pc |-> "idle", tokens |-> <<>>, ngrams |-> <<>>, i |-> 1],
                r |-> [pc |-> "idle", ng |-> <<>>,
                       ngramCount |-> 0, contextCount |-> 0, vocabSize |-> 0],
                before |-> NewNGramModelTrieWithBloom(n, "AddK", b),
                after |-> NewNGramModelTrieWithBloom(n, "AddK", b),
                lin |-> {}]
    /\ trie = 0 /\ hist = 0 /\ model = 0 /\ mhist = 0
    /\ cm = 0 /\ disk = 0 /\ loaded = 0 /\ chist = 0
    /\ tk = 0 /\ fs = 0 /\ fn = 0 /\ ing = 0 /\ pr = 0

lockUnchanged == UNCHANGED <<trie, hist, model, mhist, cm, disk, loaded, chist, tk, fs, fn, ing, pr>>

\* Add: the early return, or totalTokens under m.mu
AddBegin ==
    \E tokens \in LockStreams :
        /\ lk.w.pc = "idle"
        /\ lk.adds < MaxLockAdds
        /\ lk' = IF Len(tokens) = 0
                 THEN [lk EXCEPT !.adds = @ + 1]
                 ELSE [lk EXCEPT
                         !.adds = @ + 1,
                         !.m.totalTokens = @ + Len(tokens),
                         !.w = [pc |-> "vocabulary", tokens |-> tokens,
                                ngrams |-> extractNGrams(lk.m.n, tokens), i |-> 1],
                         !.before = lk.m,
                         !.after = Add(lk.m, tokens),
                         !.lin = IF lk.r.pc \in {"idle", "done"} THEN @
                                 ELSE @ \cup {Add(lk.m, tokens)}]
        /\ lockUnchanged

\* one m.vocabulary.Insert of the first loop
AddVocabulary ==
    /\ lk.w.pc = "vocabulary"
    /\ lk' = [lk EXCEPT
                !.m.vocabulary = Insert(@, <<lk.w.tokens[lk.w.i]>>),
                !.w.i = IF lk.w.i = Len(lk.w.tokens) THEN 1 ELSE @ + 1,
                !.w.pc = IF lk.w.i = Len(lk.w.tokens) THEN "ngram" ELSE @]
    /\ lockUnchanged

\* m.ngramTrie.Insert(ng) of the second loop
AddNGram ==
    /\ lk.w.pc = "ngram"
    /\ LET ng == lk.w.ngrams[lk.w.i]
       IN lk' = [lk EXCEPT
                   !.m.ngramTrie = Insert(@, ng),
                   !.w.pc = IF Len(ng) > 1 THEN "context"
                            ELSE IF lk.w.i = Len(lk.w.ngrams) THEN "idle" ELSE "ngram",
                   !.w.i = IF Len(ng) > 1 THEN @ ELSE @ + 1]
    /\ lockUnchanged

\* m.contextTrie.Insert(context) of the second loop
AddContext ==
    /\ lk.w.pc = "context"
    /\ LET ng == lk.w.ngrams[lk.w.i]
       IN lk' = [lk EXCEPT
                   !.m.contextTrie = Insert(@, SubSeq(ng, 1, Len(ng) - 1)),
                   !.w.pc = IF lk.w.i = Len(lk.w.ngrams) THEN "idle" ELSE "ngram",
                   !.w.i = @ + 1]
    /\ lockUnchanged

\* Probability: ng is built and m.ngramTrie.GetCount(ng) is read
ProbabilityNGram ==
    \E token \in Tokens, context \in SeqsUpTo(Tokens, 1) :
        /\ lk.r.pc = "idle"
        /\ LET full == Append(context, token)
               ng == IF Len(full) > lk.m.n
                     THEN SubSeq(full, Len(full) - lk.m.n + 1, Len(full)) ELSE full
           IN lk' = [lk EXCEPT
                       !.r.ng = ng,
                       !.r.ngramCount = GetCount(lk.m.ngramTrie, ng),
                       !.r.pc = IF Len(ng) > 1 THEN "context" ELSE "vocabulary",
                       !.lin = IF lk.w.pc = "idle" THEN {lk.m}
                               ELSE {lk.before, lk.after}]
        /\ lockUnchanged

\* m.contextTrie.GetCount(ctx)
ProbabilityContext ==
    /\ lk.r.pc = "context"
    /\ lk' = [lk EXCEPT
                !.r.contextCount = GetCount(lk.m.contextTrie,
                                            SubSeq(lk.r.ng, 1, Len(lk.r.ng) - 1)),
                !.r.pc = "vocabulary"]
    /\ lockUnchanged

\* m.vocabulary.VocabularySize(), after which the smoother is applied
ProbabilityVocabulary ==
    /\ lk.r.pc = "vocabulary"
    /\ lk' = [lk EXCEPT
                !.r.vocabSize = VocabularySize(lk.m.vocabulary),
                !.r.pc = "done"]
    /\ lockUnchanged

NextLock ==
    \/ AddBegin
    \/ AddVocabulary
    \/ AddNGram
    \/ AddContext
    \/ ProbabilityNGram
    \/ ProbabilityContext
    \/ ProbabilityVocabulary

SpecLock == InitLock /\ [][NextLock]_vars

\* what Probability reads of model m for the n-gram ng
observe(m, ng) ==
    [ngramCount |-> GetCount(m.ngramTrie, ng),
     contextCount |-> IF Len(ng) > 1
                      THEN GetCount(m.contextTrie, SubSeq(ng, 1, Len(ng) - 1))
                      ELSE 0,
     vocabSize |-> VocabularySize(m.vocabulary)]

\* the steps of Add leave the model that Add as a whole leaves
LockAddAgrees == lk.w.pc = "idle" => lk.m = lk.after

\* C8: what a finished Probability call has read (n-gram count, context
\* count, vocabulary size) is what it reads of the model at a boundary of
\* the whole Adds its call overlapped
C8_Linearizable ==
    lk.r.pc = "done" =>
        \E m \in lk.lin :
            observe(m, lk.r.ng) = [ngramCount |-> lk.r.ngramCount,
                                   contextCount |-> lk.r.contextCount,
                                   vocabSize |-> lk.r.vocabSize]

\* C8, its particular case: a finished Probability call on a model without
\* bloom filter has not read an n-gram count above the count of its context
C8_ContextCounted ==
    (lk.r.pc = "done" /\ ~lk.m.ngramTrie.useBloom /\ Len(lk.r.ng) > 1) =>
        lk.r.ngramCount <= lk.r.contextCount

(***************************************************************************)
(* SpecTokenizer: the registry holds one tokenizer per language, each with *)
(* one parser.  The two walker workers of ProcessRepository (through       *)
(* AddFile) and a caller of AnalyzeCode call Tokenize on them.  The Java   *)
(* and TypeScript tokenizers take their mutex in Tokenize; the Go, Python  *)
(* and JavaScript tokenizers have none.                                    *)
(***************************************************************************)
Threads == {"worker1", "worker2", "analyze"}

TokenizerLanguages == {"go", "python", "javascript", "typescript", "java"}

WithMutex == {"typescript", "java"}

InitTokenizer ==
    /\ tk = [pc |-> [t \in Threads |-> "idle"],
             language |-> [t \in Threads |-> "go"],
             calls |-> [t \in Threads |-> 0],
             mu |-> [l \in WithMutex |-> "free"]]
    /\ trie = 0 /\ hist = 0 /\ model = 0 /\ mhist = 0
    /\ cm = 0 /\ disk = 0 /\ loaded = 0 /\ chist = 0
    /\ lk = 0 /\ fs = 0 /\ fn = 0 /\ ing = 0 /\ pr = 0

tokenizerUnchanged == UNCHANGED <<trie, hist, model, mhist, cm, disk, loaded, chist, lk, fs, fn, ing, pr>>

\* registry.GetTokenizer(language) and the call of its Tokenize
TokenizeCall(t) ==
    \E language \in TokenizerLanguages :
        /\ tk.pc[t] = "idle"
        /\ tk.calls[t] < MaxTokenizeCalls
        /\ tk' = [tk EXCEPT !.pc[t] = "called",
                            !.language[t] = language,
                            !.calls[t] = @ + 1]
        /\ tokenizerUnchanged

\* JavaTokenizer / TypeScriptTokenizer: t.mu.Lock()
TokenizeLock(t) ==
    /\ tk.pc[t] = "called"
    /\ tk.language[t] \in WithMutex
    /\ tk.mu[tk.language[t]] = "free"
    /\ tk' = [tk EXCEPT !.pc[t] = "parse", !.mu[tk.language[t]] = t]
    /\ tokenizerUnchanged

\* GoTokenizer / PythonTokenizer / JavaScriptTokenizer: no lock is taken
TokenizeEnter(t) ==
    /\ tk.pc[t] = "called"
    /\ tk.language[t] \notin WithMutex
    /\ tk' = [tk EXCEPT !.pc[t] = "parse"]
    /\ tokenizerUnchanged

\* t.parser.Parse(source, nil)
TokenizeParse(t) ==
    /\ tk.pc[t] = "parse"
    /\ tk' = [tk EXCEPT !.pc[t] = "traverse"]
    /\ tokenizerUnchanged

\* traverseNode and the return, with the deferred Unlock where a lock is held
TokenizeReturn(t) ==
    /\ tk.pc[t] = "traverse"
    /\ tk' = [tk EXCEPT !.pc[t] = "idle",
                        !.mu = [l \in WithMutex |-> IF tk.mu[l] = t THEN "free" ELSE tk.mu[l]]]
    /\ tokenizerUnchanged

NextTokenizer ==
    \E t \in Threads :
        \/ TokenizeCall(t)
        \/ TokenizeLock(t)
        \/ TokenizeEnter(t)
        \/ TokenizeParse(t)
        \/ TokenizeReturn(t)

SpecTokenizer == InitTokenizer /\ [][NextTokenizer]_vars

insideTokenize(t) == tk.pc[t] \in {"parse", "traverse"}

\* C9: no two threads are inside Tokenize of the same tokenizer at once
C9_TokenizeExclusive ==
    \A t1, t2 \in Threads :
        (t1 # t2 /\ insideTokenize(t1) /\ insideTokenize(t2))
            => tk.language[t1] # tk.language[t2]

(***************************************************************************)
(* SpecFile: the model file at its canonical path.  saveToFile creates     *)
(* (truncates) the file at that path and the encoder then writes the model *)
(* into it, FileChunks writes per model; a save may be interrupted.        *)
(* ModelExists and loadFromFile read the same path.  fs.file.written       *)
(* counts the writes that reached the file, fs.file.save names the save    *)
(* they belong to.                                                         *)
(***************************************************************************)
InitFile ==
    /\ fs = [file |-> [exists |-> FALSE, save |-> 0, written |-> 0],
             pc |-> "idle",
             saves |-> 0,
             crashes |-> 0,
             seen |-> [op |-> "", exists |-> FALSE, err |-> "", save |-> 0]]
    /\ trie = 0 /\ hist = 0 /\ model = 0 /\ mhist = 0
    /\ cm = 0 /\ disk = 0 /\ loaded = 0 /\ chist = 0
    /\ lk = 0 /\ tk = 0 /\ fn = 0 /\ ing = 0 /\ pr = 0

fileUnchanged == UNCHANGED <<trie, hist, model, mhist, cm, disk, loaded, chist, lk, tk, fn, ing, pr>>

\* os.Create(path): the file exists and is empty
SaveCreate ==
    /\ fs.pc = "idle"
    /\ fs.saves < MaxSaves
    /\ fs' = [fs EXCEPT !.pc = "encode",
                        !.saves = @ + 1,
                        !.file = [exists |-> TRUE, save |-> fs.saves + 1, written |-> 0]]
    /\ fileUnchanged

\* encoder.Encode(model): one write reaches the file
SaveEncode ==
    /\ fs.pc = "encode"
    /\ fs' = [fs EXCEPT !.file.written = @ + 1,
                        !.pc = IF fs.file.written + 1 = FileChunks THEN "close" ELSE @]
    /\ fileUnchanged

\* the deferred file.Close() and the return
SaveClose ==
    /\ fs.pc = "close"
    /\ fs' = [fs EXCEPT !.pc = "idle"]
    /\ fileUnchanged

\* the process is interrupted during a save; the file stays as written so far
SaveInterrupted ==
    /\ fs.pc \in {"encode", "close"}
    /\ fs.crashes < MaxCrashes
    /\ fs' = [fs EXCEPT !.pc = "idle", !.crashes = @ + 1]
    /\ fileUnchanged

\* ModelExists: os.Stat(path)
ModelExists ==
    /\ fs' = [fs EXCEPT !.seen = [op |-> "exists", exists |-> fs.file.exists,
                                  err |-> "", save |-> 0]]
    /\ fileUnchanged

\* LoadCorpusManager: os.Stat, then loadFromFile decodes what the file holds
loadFromFile ==
    /\ fs' = [fs EXCEPT !.seen =
                 IF ~fs.file.exists
                 THEN [op |-> "load", exists |-> FALSE,
                       err |-> "no saved model found", save |-> 0]
                 ELSE IF fs.file.written < FileChunks
                 THEN [op |-> "load", exists |-> TRUE,
                       err |-> "failed to load from file", save |-> 0]
                 ELSE [op |-> "load", exists |-> TRUE, err |-> "",
                       save |-> fs.file.save]]
    /\ fileUnchanged

NextFile ==
    \/ SaveCreate
    \/ SaveEncode
    \/ SaveClose
    \/ SaveInterrupted
    \/ ModelExists
    \/ loadFromFile

SpecFile == InitFile /\ [][NextFile]_vars

\* C10: the canonical path holds no file or a complete model, never a
\* partially written one
C10_NeverPartial == fs.file.exists => fs.file.written = FileChunks

\* C10, as a reader sees it: a load of an existing file decodes a model
C10_LoadSeesComplete ==
    (fs.seen.op = "load" /\ fs.seen.exists) => fs.seen.err = ""

(***************************************************************************)
(* SpecStream: LoadCorpusManager applied to a model file as it may be      *)
(* found on disk: written by SaveCorpusManager, written by a codec of      *)
(* another version, or with a damaged node array.                          *)
(***************************************************************************)
fnUnchanged ==
    UNCHANGED <<trie, hist, model, mhist, cm, disk, loaded, chist, lk, tk, fs, ing, pr>>

\* the Version SaveCorpusManager writes
CodecVersion == "1.0"

StreamVersions == {"1.0", "0.9", "2.0"}

StreamDamages == {"none", "dangling", "rootless"}

\* the node array without its first node other than the root: the parent of
\* that node still names it in ChildrenIDs
withoutFirstChild(nodes) ==
    IF \A i \in 1 .. Len(nodes) : nodes[i].ID = 0 THEN nodes
    ELSE LET k == CHOOSE i \in 1 .. Len(nodes) :
                      nodes[i].ID # 0 /\ \A j \in 1 .. (i - 1) : nodes[j].ID = 0
         IN [i \in 1 .. Len(nodes) - 1 |-> IF i < k THEN nodes[i] ELSE nodes[i + 1]]

\* the node array without the node of serial id 0, unless it is the only node
withoutRoot(nodes) ==
    IF Len(nodes) < 2 THEN nodes
    ELSE LET k == CHOOSE i \in 1 .. Len(nodes) : nodes[i].ID = 0
         IN [i \in 1 .. Len(nodes) - 1 |-> IF i < k THEN nodes[i] ELSE nodes[i + 1]]

damaged(nodes, damage) ==
    CASE damage = "dangling" -> withoutFirstChild(nodes)
      [] damage = "rootless" -> withoutRoot(nodes)
      [] OTHER -> nodes

\* the files LoadCorpusManager is applied to
StreamFiles ==
    {[exists |-> TRUE,
      data |-> [SaveCorpusManager(
                    [NewCorpusManagerWithOptions(n, sm, b) EXCEPT
                        !.globalModel = Add(@, tokens)])
                EXCEPT !.Version = version,
                       !.TrieNodes = damaged(@, damage)]] :
        n \in 1 .. MaxCorpusOrder, sm \in Smoothers, b \in BOOLEAN,
        tokens \in SeqsUpTo(Tokens, 2),
        version \in StreamVersions, damage \in StreamDamages}
        \cup {NoFile}

\* LoadCorpusManager with its error result: the file is looked up and decoded,
\* the manager is built from it; the Version read is not looked at
LoadCorpusManagerFrom(file) ==
    IF ~file.exists
    THEN [ok |-> FALSE, err |-> "no saved model found"]
    ELSE [ok |-> TRUE, err |-> "", cm |-> LoadCorpusManager(file.data)]

InitStream ==
    /\ \E file \in StreamFiles :
          fn = [call |-> "LoadCorpusManager", file |-> file, done |-> FALSE,
                result |-> [ok |-> FALSE, err |-> ""]]
    /\ trie = 0 /\ hist = 0 /\ model = 0 /\ mhist = 0
    /\ cm = 0 /\ disk = 0 /\ loaded = 0 /\ chist = 0
    /\ lk = 0 /\ tk = 0 /\ fs = 0 /\ ing = 0 /\ pr = 0

StreamLoad ==
    /\ ~fn.done
    /\ fn' = [fn EXCEPT !.done = TRUE, !.result = LoadCorpusManagerFrom(fn.file)]
    /\ fnUnchanged

NextStream == StreamLoad

SpecStream == InitStream /\ [][NextStream]_vars

\* C11: a load of a file whose Version is not the codec's returns a
\* format-version error and no corpus manager
C11_VersionChecked ==
    (fn.done /\ fn.file.exists /\ fn.file.data.Version # CodecVersion) =>
        (~fn.result.ok /\ fn.result.err = "format version")

\* a node array that names a child id no node has, or has no node of id 0
inconsistent(nodes) ==
    /\ Len(nodes) > 0
    /\ \/ 0 \notin serialIDs(nodes)
       \/ \E i \in 1 .. Len(nodes) :
             \E tokenID \in DOMAIN nodes[i].ChildrenIDs :
                 nodes[i].ChildrenIDs[tokenID] \notin serialIDs(nodes)

\* C19: a load of a file with an inconsistent node array fails with a
\* format-corrupt error
C19_CorruptRejected ==
    (fn.done /\ fn.file.exists /\ inconsistent(fn.file.data.TrieNodes)) =>
        (~fn.result.ok /\ fn.result.err = "format corrupt")

(***************************************************************************)
(* Statistics of a model and of a corpus manager.                          *)
(***************************************************************************)
Stats(m) ==
    [N |-> m.n,
     VocabularySize |-> VocabularySize(m.vocabulary),
     NGramCount |-> TotalNGrams(m.ngramTrie),
     TotalTokens |-> m.totalTokens,
     SmootherName |-> m.smoother]

RECURSIVE sumTokenCounts(_, _)
sumTokenCounts(fileModels, todo) ==
    IF todo = {} THEN 0
    ELSE LET q == CHOOSE x \in todo : TRUE
         IN fileModels[q].TokenCount + sumTokenCounts(fileModels, todo \ {q})

\* the counts of GetStats (the entropy mean, deviation, minimum and maximum
\* are functions of the per-file entropies)
GetStats(c) ==
    [TotalFiles |-> Cardinality(DOMAIN c.fileModels),
     TotalTokens |-> sumTokenCounts(c.fileModels, DOMAIN c.fileModels),
     LanguageCounts |-> [l \in {c.fileModels[q].Language : q \in DOMAIN c.fileModels} |->
                            Cardinality({q \in DOMAIN c.fileModels :
                                            c.fileModels[q].Language = l})],
     GlobalModel |-> Stats(c.globalModel)]

\* C18: right after a load, GetStats of the loaded manager reports the total
\* files, total tokens, vocabulary size and n-gram count of the saved one,
\* and every file has the entropy it had
C18_StatsRoundTrip ==
    (chist.last.op = "load" /\ chist.last.err = "") =>
        /\ GetStats(loaded.cm) = GetStats(chist.saved)
        /\ DOMAIN loaded.cm.fileModels = DOMAIN chist.saved.fileModels
        /\ \A q \in DOMAIN chist.saved.fileModels :
              GetFileEntropy(loaded.cm, q) = GetFileEntropy(chist.saved, q)

\* a corpus with a file, counted n-grams and a non-zero entropy was loaded
C18_Witness ==
    /\ chist.last.op = "load" /\ chist.last.err = ""
    /\ GetStats(loaded.cm).TotalFiles > 0
    /\ GetStats(loaded.cm).GlobalModel.NGramCount > 0
    /\ GetStats(loaded.cm).GlobalModel.VocabularySize > 1
    /\ \E q \in DOMAIN loaded.cm.fileModels :
          GetFileEntropy(loaded.cm, q).value # EntropyZero

(***************************************************************************)
(* The counters of a trie against its nodes.                               *)
(***************************************************************************)
RECURSIVE sumCounts(_, _)
sumCounts(root, todo) ==
    IF todo = {} THEN 0
    ELSE LET p == CHOOSE x \in todo : TRUE
         IN root[p] + sumCounts(root, todo \ {p})

\* C20: totalNGrams is the sum of the counts of all nodes, and no node count
\* and no totalNGrams is negative
C20_TotalIsSum ==
    /\ trie.totalNGrams = sumCounts(trie.root, DOMAIN trie.root)
    /\ trie.totalNGrams >= 0
    /\ \A p \in DOMAIN trie.root : trie.root[p] >= 0

\* a trie that was inserted into, removed from and pruned, nodes dropped and
\* counts left
C20_Witness ==
    /\ hist.pruned
    /\ \E g \in NGrams : hist.rem[g] > 0 /\ hist.ins[g] > 0
    /\ trie.totalNGrams > 0

(***************************************************************************)
(* SpecSmooth: one call of a smoother's Smooth.                            *)
(***************************************************************************)
InitSmooth ==
    /\ \E sm \in Smoothers, ngramCount \in 0 .. MaxSmoothCount,
          contextCount \in 0 .. MaxSmoothCount, vocabularySize \in 0 .. MaxSmoothVocab :
          fn = [call |-> "Smooth", smoother |-> sm, ngramCount |-> ngramCount,
                contextCount |-> contextCount, vocabularySize |-> vocabularySize,
                done |-> FALSE, result |-> Frac(0, 1)]
    /\ trie = 0 /\ hist = 0 /\ model = 0 /\ mhist = 0
    /\ cm = 0 /\ disk = 0 /\ loaded = 0 /\ chist = 0
    /\ lk = 0 /\ tk = 0 /\ fs = 0 /\ ing = 0 /\ pr = 0

SmoothCall ==
    /\ ~fn.done
    /\ fn' = [fn EXCEPT !.done = TRUE,
                        !.result = Smooth(fn.smoother, fn.ngramCount,
                                          fn.contextCount, fn.vocabularySize)]
    /\ fnUnchanged

NextSmooth == SmoothCall

SpecSmooth == InitSmooth /\ [][NextSmooth]_vars

\* C13: for a vocabulary size above 0, Smooth returns p with 0 < p <= 1
C13_SmoothInUnitInterval ==
    (fn.done /\ fn.vocabularySize > 0) =>
        /\ fn.result.den > 0
        /\ fn.result.num > 0
        /\ fn.result.num <= fn.result.den

(***************************************************************************)
(* SpecModelOps: one model under Add, Remove and Prune.                    *)
(***************************************************************************)
RECURSIVE removeUnigrams(_, _)
removeUnigrams(vocabulary, tokens) ==
    IF tokens = <<>> THEN vocabulary
    ELSE removeUnigrams(Remove(vocabulary, <<Head(tokens)>>), Tail(tokens))

RECURSIVE removeNGrams(_, _)
removeNGrams(m, ngrams) ==
    IF ngrams = <<>> THEN m
    ELSE LET ng == Head(ngrams)
             m1 == [m EXCEPT !.ngramTrie = Remove(m.ngramTrie, ng)]
             m2 == IF Len(ng) > 1
                   THEN [m1 EXCEPT !.contextTrie =
                                      Remove(m1.contextTrie, SubSeq(ng, 1, Len(ng) - 1))]
                   ELSE m1
         IN removeNGrams(m2, Tail(ngrams))

\* Remove that leaves the context trie alone
RemoveTokensKeepContexts(m, tokens) ==
    IF Len(tokens) = 0 THEN m
    ELSE [removeNGrams([m EXCEPT !.totalTokens = Max(0, m.totalTokens - Len(tokens)),
                                 !.vocabulary = removeUnigrams(m.vocabulary, tokens)],
                       extractNGrams(m.n, tokens))
             EXCEPT !.contextTrie = m.contextTrie]

\* NGramModelTrie.Remove
RemoveTokens(m, tokens) ==
    IF Len(tokens) = 0 THEN m
    ELSE removeNGrams([m EXCEPT !.totalTokens = Max(0, m.totalTokens - Len(tokens)),
                                !.vocabulary = removeUnigrams(m.vocabulary, tokens)],
                      extractNGrams(m.n, tokens))

\* NGramModelTrie.Prune
PruneModel(m, minCount) ==
    [m EXCEPT !.ngramTrie = Prune(m.ngramTrie, minCount),
              !.contextTrie = Prune(m.contextTrie, minCount)]

MixedStreams ==
    {<<"ID", "func", "ID", "func", "ID", "func", "ID">>,
     <<"ID", "ID", "ID">>,
     <<"func", "func", "func">>}

MixedProbes == {<<"ID", "func", "ID", "func">>, <<"ID", "func">>, <<"func">>}

InitModelOps ==
    /\ \E n \in 1 .. 2, sm \in Smoothers, b \in BOOLEAN :
          model = NewNGramModelTrieWithBloom(n, sm, b)
    /\ mhist = [ops |-> 0, added |-> 0, removed |-> 0, pruned |-> 0]
    /\ trie = 0 /\ hist = 0
    /\ cm = 0 /\ disk = 0 /\ loaded = 0 /\ chist = 0
    /\ lk = 0 /\ tk = 0 /\ fs = 0 /\ fn = 0 /\ ing = 0 /\ pr = 0

modelUnchanged == UNCHANGED <<trie, hist, cm, disk, loaded, chist, lk, tk, fs, fn, ing, pr>>

MixedAdd ==
    \E tokens \in MixedStreams :
        /\ mhist.ops < MaxMixedOps
        /\ model' = Add(model, tokens)
        /\ mhist' = [mhist EXCEPT !.ops = @ + 1, !.added = @ + 1]
        /\ modelUnchanged

MixedRemove ==
    \E tokens \in MixedStreams :
        /\ mhist.ops < MaxMixedOps
        /\ model' = RemoveTokens(model, tokens)
        /\ mhist' = [mhist EXCEPT !.ops = @ + 1, !.removed = @ + 1]
        /\ modelUnchanged

MixedPrune ==
    \E minCount \in PruneArgs :
        /\ mhist.ops < MaxMixedOps
        /\ model' = PruneModel(model, minCount)
        /\ mhist' = [mhist EXCEPT !.ops = @ + 1, !.pruned = @ + 1]
        /\ modelUnchanged

NextModelOps == MixedAdd \/ MixedRemove \/ MixedPrune

SpecModelOps == InitModelOps /\ [][NextModelOps]_vars

\* the value -(log2 of num/den)/cnt is at least 0
entropyNonNegative(e) == e.cnt = 0 \/ (e.den # 0 /\ e.num <= e.den)

\* C12: in every state reached by Add, Remove and Prune calls, CrossEntropy
\* of every stream is at least 0
C12_EntropyNonNegative ==
    \A tokens \in MixedProbes : entropyNonNegative(CrossEntropy(model, tokens))

\* C12 on models something was added to: the same, for vocabulary sizes above 0
C12_EntropyNonNegativeNonEmpty ==
    VocabularySize(model.vocabulary) > 0 =>
        \A tokens \in MixedProbes : entropyNonNegative(CrossEntropy(model, tokens))

\* C14: on a model whose vocabulary size is 0, Probability is 0 for every
\* token and context, and CrossEntropy of every stream is 0
C14_EmptyModelZero ==
    VocabularySize(model.vocabulary) = 0 =>
        /\ \A token \in Tokens, context \in SeqsUpTo(Tokens, 2) :
              Probability(model, token, context) = Frac(0, 1)
        /\ \A tokens \in MixedProbes : CrossEntropy(model, tokens) = EntropyZero

(***************************************************************************)
(* The two entropies of the service.  AnalyzeCode reports CrossEntropy of  *)
(* the normalized tokens under the global model.  CalculateZScore reports  *)
(* the value of calculateEntropyWithScores: the sum of -log2 p over the    *)
(* windows of size n, 20.0 for a window with p <= 0, divided by the number *)
(* of tokens.  It is kept as [num, den, cnt, zeros]: the product of the    *)
(* p > 0 in lowest terms, the divisor, and the number of windows with      *)
(* p <= 0; its log2 is taken as exact.                                     *)
(***************************************************************************)
RECURSIVE scoreWindows(_, _, _, _, _)
scoreWindows(tokens, m, n, i, acc) ==
    IF i > Len(tokens) - n + 1 THEN acc
    ELSE LET ngram == SubSeq(tokens, i, i + n - 1)
             prob == Probability(m, ngram[n], SubSeq(ngram, 1, n - 1))
             score == [NGram |-> ngram, Probability |-> prob]
         IN IF prob.den = 0
            THEN scoreWindows(tokens, m, n, i + 1,
                              [acc EXCEPT !.entropy.num = 1, !.entropy.den = 0,
                                          !.ngramScores = Append(@, score)])
            ELSE IF prob.num > 0
            THEN scoreWindows(tokens, m, n, i + 1,
                              [acc EXCEPT
                                 !.entropy.num = IF acc.entropy.den = 0 THEN @
                                                 ELSE Frac(@ * prob.num,
                                                           acc.entropy.den * prob.den).num,
                                 !.entropy.den = IF @ = 0 THEN @
                                                 ELSE Frac(acc.entropy.num * prob.num,
                                                           @ * prob.den).den,
                                 !.ngramScores = Append(@, score)])
            ELSE scoreWindows(tokens, m, n, i + 1,
                              [acc EXCEPT !.entropy.zeros = @ + 1,
                                          !.ngramScores = Append(@, score)])

calculateEntropyWithScores(tokens, m, n) ==
    IF Len(tokens) < n
    THEN [entropy |-> [num |-> 1, den |-> 1, cnt |-> 0, zeros |-> 0], ngramScores |-> <<>>]
    ELSE scoreWindows(tokens, m, n, 1,
                      [entropy |-> [num |-> 1, den |-> 1, cnt |-> Len(tokens), zeros |-> 0],
                       ngramScores |-> <<>>])

\* AnalyzeCode's entropy of the normalized tokens
analyzeEntropy(m, tokens) == CrossEntropy(m, tokens)

RECURSIVE Power(_, _)
Power(a, k) == IF k = 0 THEN 1 ELSE a * Power(a, k - 1)

\* -(log2 of a.num/a.den)/a.cnt of AnalyzeCode equals the value z of
\* calculateEntropyWithScores
sameEntropy(a, z) ==
    LET aZero == a.cnt = 0 \/ (a.den # 0 /\ a.num = a.den)
        zZero == z.zeros = 0 /\ (z.cnt = 0 \/ (z.den # 0 /\ z.num = z.den))
    IN IF aZero \/ zZero THEN aZero /\ zZero
       ELSE /\ z.zeros = 0
            /\ (a.den = 0) = (z.den = 0)
            /\ a.den # 0 =>
                  Power(a.num, z.cnt) * Power(z.den, a.cnt)
                      = Power(z.num, a.cnt) * Power(a.den, z.cnt)

SnippetTokens == SeqsUpTo(Tokens, 2)

\* C15: for every snippet, the entropy CalculateZScore reports equals the
\* entropy AnalyzeCode reports under the same model
C15_SameEntropy ==
    \A tokens \in SnippetTokens :
        sameEntropy(analyzeEntropy(model, tokens),
                    calculateEntropyWithScores(tokens, model, model.n).entropy)

\* C15 on models something was added to
C15_SameEntropyNonEmpty ==
    VocabularySize(model.vocabulary) > 0 =>
        \A tokens \in SnippetTokens :
            sameEntropy(analyzeEntropy(model, tokens),
                        calculateEntropyWithScores(tokens, model, model.n).entropy)

(***************************************************************************)
(* SpecZ: one call of interpretZScore.  A z-score is the fraction          *)
(* num/den; a percentile is given in tenths (2.5 is 25).                   *)
(***************************************************************************)
ZDens == {1, 2, 4}

\* zScore < bound and zScore <= bound, for an integer bound
zLess(z, bound) == z.num < bound * z.den

zLessEq(z, bound) == z.num <= bound * z.den

\* the comparisons at the inner bounds turned around: <= -1.0 and < 1.0
interpretZScoreInnerSwapped(z) ==
    IF zLess(z, -2) THEN [Level |-> "very_low", Percentile |-> 25]
    ELSE IF zLessEq(z, -1) THEN [Level |-> "low", Percentile |-> 160]
    ELSE IF zLess(z, 1) THEN [Level |-> "normal", Percentile |-> 500]
    ELSE IF zLessEq(z, 2) THEN [Level |-> "high", Percentile |-> 840]
    ELSE [Level |-> "very_high", Percentile |-> 975]

interpretZScore(z) ==
    IF zLess(z, -2) THEN [Level |-> "very_low", Percentile |-> 25]
    ELSE IF zLess(z, -1) THEN [Level |-> "low", Percentile |-> 160]
    ELSE IF zLessEq(z, 1) THEN [Level |-> "normal", Percentile |-> 500]
    ELSE IF zLessEq(z, 2) THEN [Level |-> "high", Percentile |-> 840]
    ELSE [Level |-> "very_high", Percentile |-> 975]

InitZ ==
    /\ \E num \in (0 - MaxZNum) .. MaxZNum, den \in ZDens :
          fn = [call |-> "interpretZScore", z |-> [num |-> num, den |-> den],
                done |-> FALSE, result |-> [Level |-> "", Percentile |-> 0]]
    /\ trie = 0 /\ hist = 0 /\ model = 0 /\ mhist = 0
    /\ cm = 0 /\ disk = 0 /\ loaded = 0 /\ chist = 0
    /\ lk = 0 /\ tk = 0 /\ fs = 0 /\ ing = 0 /\ pr = 0

InterpretCall ==
    /\ ~fn.done
    /\ fn' = [fn EXCEPT !.done = TRUE, !.result = interpretZScore(fn.z)]
    /\ fnUnchanged

NextZ == InterpretCall

SpecZ == InitZ /\ [][NextZ]_vars

\* C16: z < -2 is very_low (2.5), -2 <= z < -1 low (16), -1 <= z <= 1 normal
\* (50), 1 < z <= 2 high (84), z > 2 very_high (97.5); -2, -1, 1 and 2 fall
\* into low, normal, normal and high
C16_Levels ==
    fn.done =>
        LET z == fn.z
            r == fn.result
            at(k) == z.num = k * z.den
        IN /\ z.num < -2 * z.den => r = [Level |-> "very_low", Percentile |-> 25]
           /\ (-2 * z.den <= z.num /\ z.num < -1 * z.den)
                  => r = [Level |-> "low", Percentile |-> 160]
           /\ (-1 * z.den <= z.num /\ z.num <= z.den)
                  => r = [Level |-> "normal", Percentile |-> 500]
           /\ (z.den < z.num /\ z.num <= 2 * z.den)
                  => r = [Level |-> "high", Percentile |-> 840]
           /\ z.num > 2 * z.den => r = [Level |-> "very_high", Percentile |-> 975]
           /\ at(-2) => r.Level = "low"
           /\ at(-1) => r.Level = "normal"
           /\ at(1) => r.Level = "normal"
           /\ at(2) => r.Level = "high"

\* the boundary value -1, as the fraction -4/4, was interpreted
C16_Witness ==
    /\ fn.done
    /\ fn.z = [num |-> -4, den |-> 4]
    /\ fn.result.Level = "normal"

(***************************************************************************)
(* SpecIngest: one ProcessRepository call that builds a new corpus (the    *)
(* override case, or no stored model), and its caller, who may cancel the  *)
(* context at any moment of the call.  WalkDirTree's walk sends the files  *)
(* to a channel that NumThreads workers receive from; each worker runs the *)
(* walk function, which calls AddFile.  The new corpus manager is already  *)
(* registered under the repository's name, where GetCorpusManager finds    *)
(* it.  calls counts the calls of the walk function per path; seen is what *)
(* the last GetCorpusManager call returned.                                *)
(***************************************************************************)
WorkQueueCap == 2

NumThreads == 2

RepoPaths == <<"a", "b", "c", "d">>

Idle == [busy |-> FALSE]

\* detectLanguage's answers: a Go file, or a file of no known language
RepoLanguages == {"go", ""}

RepoItems(sources, languages) ==
    [i \in 1 .. MaxRepoFiles |->
        [index |-> i, path |-> RepoPaths[i],
         source |-> sources[i], language |-> languages[i]]]

InitIngest ==
    /\ \E n \in 1 .. MaxCorpusOrder :
          cm = NewCorpusManagerWithOptions(n, "AddK", TRUE)
    /\ \E sources \in [1 .. MaxRepoFiles -> Sources],
          languages \in [1 .. MaxRepoFiles -> RepoLanguages] :
          ing = [pending |-> RepoItems(sources, languages),
                 workQueue |-> <<>>,
                 closed |-> FALSE,
                 worker |-> [w \in 1 .. NumThreads |-> Idle],
                 exited |-> {},
                 calls |-> [i \in 1 .. MaxRepoFiles |-> 0],
                 seen |-> [found |-> FALSE, populating |-> FALSE, files |-> 0],
                 cancelled |-> FALSE,
                 begunAfterCancel |-> FALSE,
                 result |-> "running"]
    /\ disk = NoFile
    /\ trie = 0 /\ hist = 0 /\ model = 0 /\ mhist = 0
    /\ loaded = 0 /\ chist = 0
    /\ lk = 0 /\ tk = 0 /\ fs = 0 /\ fn = 0 /\ pr = 0

ingestUnchanged == UNCHANGED <<trie, hist, model, mhist, loaded, chist, lk, tk, fs, fn, pr>>

\* the caller cancels the context while ProcessRepository runs
CancelContext ==
    /\ ing.result = "running"
    /\ ~ing.cancelled
    /\ ing' = [ing EXCEPT !.cancelled = TRUE]
    /\ UNCHANGED <<cm, disk>>
    /\ ingestUnchanged

\* walk sends the next file to the channel
WalkSend ==
    /\ ing.pending # <<>>
    /\ Len(ing.workQueue) < WorkQueueCap
    /\ ing' = [ing EXCEPT !.pending = Tail(@),
                          !.workQueue = Append(@, Head(ing.pending))]
    /\ UNCHANGED <<cm, disk>>
    /\ ingestUnchanged

\* walk has returned: close(workQueue)
WalkClose ==
    /\ ing.pending = <<>>
    /\ ~ing.closed
    /\ ing' = [ing EXCEPT !.closed = TRUE]
    /\ UNCHANGED <<cm, disk>>
    /\ ingestUnchanged

\* the channel after a receive
receiveKeepsItem(workQueue) == workQueue

receive(workQueue) == Tail(workQueue)

\* wg.Wait() returns without waiting
wgWaitNoWait(g) == TRUE

\* wg.Wait() returns when every worker has called wg.Done()
wgWait(g) == g.exited = 1 .. NumThreads

\* a worker receives a file and runs the walk function up to its AddFile
\* call; a file of no known language is done with at once
WorkerReceive(w) ==
    /\ w \notin ing.exited
    /\ ~ing.worker[w].busy
    /\ ing.workQueue # <<>>
    /\ LET item == Head(ing.workQueue)
       IN ing' = [ing EXCEPT
                    !.workQueue = receive(@),
                    !.calls[item.index] = @ + 1,
                    !.worker[w] = IF item.language = "" THEN Idle
                                  ELSE [busy |-> TRUE, item |-> item],
                    !.begunAfterCancel = @ \/ (ing.cancelled /\ item.language # "")]
    /\ UNCHANGED <<cm, disk>>
    /\ ingestUnchanged

\* the worker's AddFile call, and the rest of the walk function
WorkerAddFile(w) ==
    /\ ing.worker[w].busy
    /\ LET item == ing.worker[w].item
       IN cm' = AddFile(cm, item.path, item.source, item.language).cm
    /\ ing' = [ing EXCEPT !.worker[w] = Idle]
    /\ UNCHANGED disk
    /\ ingestUnchanged

\* the channel is closed and drained: the worker's range loop ends and the
\* deferred wg.Done() runs
WorkerExit(w) ==
    /\ w \notin ing.exited
    /\ ~ing.worker[w].busy
    /\ ing.workQueue = <<>>
    /\ ing.closed
    /\ ing' = [ing EXCEPT !.exited = @ \cup {w}]
    /\ UNCHANGED <<cm, disk>>
    /\ ingestUnchanged

\* GetCorpusManager, as AnalyzeCode, CalculateZScore and GetRepositoryStats
\* call it: the manager registered under the repository's name
GetCorpusManager ==
    /\ ing' = [ing EXCEPT !.seen = [found |-> TRUE,
                                    populating |-> ing.result = "running",
                                    files |-> Cardinality(DOMAIN cm.fileModels)]]
    /\ UNCHANGED <<cm, disk>>
    /\ ingestUnchanged

\* wg.Wait() is over: walk's error is nil, the model is saved and
\* ProcessRepository returns nil
ProcessReturn ==
    /\ ing.result = "running"
    /\ ing.closed
    /\ wgWait(ing)
    /\ disk' = [exists |-> TRUE, data |-> SaveCorpusManager(cm)]
    /\ ing' = [ing EXCEPT !.result = "nil"]
    /\ UNCHANGED cm
    /\ ingestUnchanged

NextIngest ==
    \/ CancelContext
    \/ WalkSend
    \/ WalkClose
    \/ \E w \in 1 .. NumThreads : WorkerReceive(w)
    \/ \E w \in 1 .. NumThreads : WorkerAddFile(w)
    \/ \E w \in 1 .. NumThreads : WorkerExit(w)
    \/ GetCorpusManager
    \/ ProcessReturn

SpecIngest == InitIngest /\ [][NextIngest]_vars

\* C17: once the caller's cancellation signal has fired during
\* ProcessRepository, no AddFile begins for a file not yet started, and the
\* operation reports the cancellation
C17_CancelHonoured ==
    /\ ~ing.begunAfterCancel
    /\ (ing.cancelled /\ ing.result # "running") => ing.result = "cancelled"

\* C17: what was ingested before the signal stays: AddFile calls after it
\* only add to the files of the corpus
C17_IngestedStays ==
    [][DOMAIN cm.fileModels \subseteq DOMAIN cm'.fileModels]_vars

(***************************************************************************)
(* SpecIntern: the interning table of one trie under Insert, Remove and    *)
(* Prune, where the text of a token may be the sentinel's, "<ROOT>".       *)
(***************************************************************************)
InternTokens == {"ID", "func", ROOT}

InternNGrams == SeqsUpTo(InternTokens, MaxNGramLen)

InitIntern ==
    /\ \E b \in BOOLEAN : trie = NewNGramTrieWithBloom(b)
    /\ hist = [steps |-> 0]
    /\ model = 0 /\ mhist = 0
    /\ cm = 0 /\ disk = 0 /\ loaded = 0 /\ chist = 0
    /\ lk = 0 /\ tk = 0 /\ fs = 0 /\ fn = 0 /\ ing = 0 /\ pr = 0

internUnchanged ==
    UNCHANGED <<model, mhist, cm, disk, loaded, chist, lk, tk, fs, fn, ing, pr>>

InternInsert ==
    \E g \in InternNGrams :
        /\ hist.steps < MaxInternOps
        /\ trie' = Insert(trie, g)
        /\ hist' = [hist EXCEPT !.steps = @ + 1]
        /\ internUnchanged

InternRemove ==
    \E g \in InternNGrams :
        /\ hist.steps < MaxInternOps
        /\ trie' = Remove(trie, g)
        /\ hist' = [hist EXCEPT !.steps = @ + 1]
        /\ internUnchanged

InternPrune ==
    \E m \in PruneArgs :
        /\ hist.steps < MaxInternOps
        /\ trie' = Prune(trie, m)
        /\ hist' = [hist EXCEPT !.steps = @ + 1]
        /\ internUnchanged

NextIntern == InternInsert \/ InternRemove \/ InternPrune

SpecIntern == InitIntern /\ [][NextIntern]_vars

\* getToken
getToken(t, id) == IF id < Len(t.idToToken) THEN t.idToToken[id + 1] ELSE ""

\* tokenToID[token] = i iff idToToken[i] = token, for the ids 0 .. nextID - 1
tableAgrees(t, token) ==
    \A i \in 0 .. t.nextID - 1 :
        (t.tokenToID[token] = i) <=> (getToken(t, i) = token)

\* C21: for every interned token t and id i, tokenToID[t] = i iff
\* idToToken[i] = t, with i < nextID; id 0 stays the sentinel's and is no
\* real token's id (also when the token's text is "<ROOT>")
C21_InternTable ==
    /\ Len(trie.idToToken) = trie.nextID
    /\ getToken(trie, 0) = ROOT
    /\ \A token \in DOMAIN trie.tokenToID :
          /\ trie.tokenToID[token] > 0
          /\ trie.tokenToID[token] < trie.nextID
          /\ tableAgrees(trie, token)

\* C21, for the tokens whose text is not the sentinel's
C21_InternTableOtherTokens ==
    /\ Len(trie.idToToken) = trie.nextID
    /\ getToken(trie, 0) = ROOT
    /\ \A token \in DOMAIN trie.tokenToID \ {ROOT} :
          /\ trie.tokenToID[token] > 0
          /\ trie.tokenToID[token] < trie.nextID
          /\ tableAgrees(trie, token)

\* C21: an id once assigned to a token never changes
C21_IdsStable ==
    [][\A token \in DOMAIN trie.tokenToID :
          /\ token \in DOMAIN trie'.tokenToID
          /\ trie'.tokenToID[token] = trie.tokenToID[token]]_vars

(***************************************************************************)
(* The bloom gate of a model, seen from the streams added to it.           *)
(***************************************************************************)
\* the number of times Add has met the n-gram g in the streams added so far
RECURSIVE occurrences(_, _, _)
occurrences(streams, n, g) ==
    IF streams = <<>> THEN 0
    ELSE WindowsEqual(Head(streams), n, g) + occurrences(Tail(streams), n, g)

RECURSIVE SumOver(_, _)
SumOver(f, S) ==
    IF S = {} THEN 0
    ELSE LET x == CHOOSE y \in S : TRUE IN f[x] + SumOver(f, S \ {x})

\* the occurrences after the first, over the n-grams whose context is c
laterOccurrences(streams, n, c) ==
    LET G == {g \in Probes : Len(g) > 1 /\ SubSeq(g, 1, Len(g) - 1) = c}
    IN SumOver([g \in G |-> Max(0, occurrences(streams, n, g) - 1)], G)

\* C22: with bloom on a model, the first occurrence of an n-gram g adds
\* neither g to the n-gram trie nor g's context to the context trie; both
\* enter the tries only from g's second occurrence onward
C22_FirstOccurrenceOnlyInBloom ==
    mhist.useBloom =>
        /\ \A g \in Probes :
              occurrences(mhist.added, model.n, g) = 1
                  => GetCount(model.ngramTrie, g) = 0
        /\ \A c \in Probes :
              GetCount(model.contextTrie, c) <= laterOccurrences(mhist.added, model.n, c)

(***************************************************************************)
(* UpdateFile on a present path, seen from the global model.               *)
(***************************************************************************)
\* the normalized tokens of the content last installed for a path
latestTokens(h, filePath) ==
    normalizeAll(h.latest[filePath].language, Tokenize(h.latest[filePath].source).tokens)

\* C23: an UpdateFile of a present path adds the new content's tokens to the
\* global model and takes nothing away: total_tokens grows by the token count
\* of the new content, no n-gram, context or unigram count decreases, and
\* only the entry of that path is replaced
C23_UpdateAdditive ==
    [][(/\ chist'.ops # chist.ops
        /\ chist'.last.op = "update"
        /\ chist'.last.err = ""
        /\ chist'.last.path \in DOMAIN cm.fileModels) =>
          LET p == chist'.last.path
              tokens == latestTokens(chist', p)
              old == cm.globalModel
              new == cm'.globalModel
          IN /\ new.totalTokens = old.totalTokens + Len(tokens)
             /\ \A g \in CorpusProbes :
                   /\ GetCount(new.ngramTrie, g) >= GetCount(old.ngramTrie, g)
                   /\ GetCount(new.contextTrie, g) >= GetCount(old.contextTrie, g)
                   /\ GetCount(new.vocabulary, g) >= GetCount(old.vocabulary, g)
             /\ DOMAIN cm'.fileModels = DOMAIN cm.fileModels
             /\ \A q \in DOMAIN cm.fileModels \ {p} : cm'.fileModels[q] = cm.fileModels[q]
             /\ cm'.fileModels[p].TokenCount = Len(tokens)
             /\ cm'.fileModels[p].Language = chist'.last.language]_vars

\* a present path was just updated with content of other length, and the
\* global model holds the tokens of the old and of the new content
C23_Witness ==
    /\ chist.last.op = "update"
    /\ chist.last.err = ""
    /\ chist.ops = 2
    /\ chist.installs[chist.last.path] = 2
    /\ LET fm == cm.fileModels[chist.last.path]
       IN /\ fm.TokenCount > 0
          /\ cm.globalModel.totalTokens > 2 * fm.TokenCount

(***************************************************************************)
(* SpecUpdate: UpdateFile calls on a present path racing GetFileEntropy    *)
(* and GetFileModel calls for it.  cm.mu is a readers-writer lock: pr.mu   *)
(* holds the number of read holders and whether a writer holds it.         *)
(***************************************************************************)
UpdatePath == "a"

\* the FileModel UpdateFile builds before it touches the corpus
newFileModel(c, filePath, language, tokens) ==
    [FilePath |-> filePath,
     Language |-> language,
     TokenCount |-> Len(tokens),
     Entropy |-> fileEntropy(c, tokens)]

\* the entry is overwritten field by field, the entropy left for later
storeFileModelKeepEntropy(fileModels, filePath, fm) ==
    [fileModels EXCEPT ![filePath] = [fm EXCEPT !.Entropy = fileModels[filePath].Entropy]]

\* cm.fileModels[filePath] = fm
storeFileModel(fileModels, filePath, fm) ==
    [q \in DOMAIN fileModels \cup {filePath} |->
        IF q = filePath THEN fm ELSE fileModels[q]]

NoModel == [FilePath |-> ""]

InitUpdate ==
    /\ \E n \in 1 .. MaxCorpusOrder, source \in {SrcFunc, SrcNums}, b \in BOOLEAN :
          cm = AddFile(NewCorpusManagerWithOptions(n, "AddK", b), UpdatePath, source, "go").cm
    /\ pr = [mu |-> [readers |-> 0, writer |-> FALSE],
             u |-> [pc |-> "idle", tokens |-> <<>>, language |-> "",
                    old |-> NoModel, fm |-> NoModel],
             r |-> [pc |-> "idle", call |-> "", during |-> FALSE,
                    old |-> NoModel, complete |-> {},
                    found |-> FALSE, fm |-> NoModel],
             updates |-> 0,
             reads |-> 0]
    /\ trie = 0 /\ hist = 0 /\ model = 0 /\ mhist = 0
    /\ disk = 0 /\ loaded = 0 /\ chist = 0
    /\ lk = 0 /\ tk = 0 /\ fs = 0 /\ fn = 0 /\ ing = 0

updateUnchanged ==
    UNCHANGED <<trie, hist, model, mhist, disk, loaded, chist, lk, tk, fs, fn, ing>>

\* UpdateFile: the entry is looked up under the read lock; the path is
\* present, so the tokenizer runs and the new file model is built
UpdateBuild ==
    \E source \in Sources, language \in Registered :
        /\ pr.u.pc = "idle"
        /\ pr.updates < MaxUpdates
        /\ ~pr.mu.writer
        /\ UpdatePath \in DOMAIN cm.fileModels
        /\ pr' = [pr EXCEPT
                    !.updates = @ + 1,
                    !.r = IF pr.r.pc \in {"called", "locked"} /\ Tokenize(source).ok
                          THEN [@ EXCEPT
                                  !.during = TRUE,
                                  !.complete = @ \cup {newFileModel(cm, UpdatePath, language,
                                      normalizeAll(language, Tokenize(source).tokens))}]
                          ELSE @,
                    !.u = IF ~Tokenize(source).ok
                          THEN [@ EXCEPT !.pc = "idle"]
                          ELSE LET tokens == normalizeAll(language, Tokenize(source).tokens)
                               IN [pc |-> "built", tokens |-> tokens, language |-> language,
                                   old |-> cm.fileModels[UpdatePath],
                                   fm |-> newFileModel(cm, UpdatePath, language, tokens)]]
        /\ UNCHANGED cm
        /\ updateUnchanged

\* cm.globalModel.Add(normalizedTokens)
UpdateGlobal ==
    /\ pr.u.pc = "built"
    /\ cm' = [cm EXCEPT !.globalModel = Add(@, pr.u.tokens)]
    /\ pr' = [pr EXCEPT !.u.pc = "added"]
    /\ updateUnchanged

\* cm.mu.Lock()
UpdateLock ==
    /\ pr.u.pc = "added"
    /\ pr.mu.readers = 0 /\ ~pr.mu.writer
    /\ pr' = [pr EXCEPT !.u.pc = "locked", !.mu.writer = TRUE]
    /\ UNCHANGED cm
    /\ updateUnchanged

\* cm.fileModels[filePath] = fm
UpdateStore ==
    /\ pr.u.pc = "locked"
    /\ cm' = [cm EXCEPT !.fileModels = storeFileModel(@, UpdatePath, pr.u.fm)]
    /\ pr' = [pr EXCEPT !.u.pc = "stored"]
    /\ updateUnchanged

\* cm.mu.Unlock() and the return
UpdateUnlock ==
    /\ pr.u.pc = "stored"
    /\ pr' = [pr EXCEPT !.u.pc = "idle", !.mu.writer = FALSE]
    /\ UNCHANGED cm
    /\ updateUnchanged

\* GetFileEntropy or GetFileModel is called.  r.complete collects the file
\* models that are the path's entry, or are being installed as it, at some
\* moment of the call.
ReadCall ==
    \E call \in {"GetFileEntropy", "GetFileModel"} :
        /\ pr.r.pc = "idle"
        /\ pr.reads < MaxReads
        /\ pr' = [pr EXCEPT
                    !.reads = @ + 1,
                    !.r = [pc |-> "called", call |-> call,
                           during |-> pr.u.pc # "idle",
                           old |-> cm.fileModels[UpdatePath],
                           complete |-> {cm.fileModels[UpdatePath]}
                                          \cup (IF pr.u.pc # "idle" THEN {pr.u.fm} ELSE {}),
                           found |-> FALSE, fm |-> NoModel]]
        /\ UNCHANGED cm
        /\ updateUnchanged

\* cm.mu.RLock()
ReadLock ==
    /\ pr.r.pc = "called"
    /\ ~pr.mu.writer
    /\ pr' = [pr EXCEPT !.r.pc = "locked", !.mu.readers = @ + 1]
    /\ UNCHANGED cm
    /\ updateUnchanged

\* fileModel, exists := cm.fileModels[filePath]
ReadLookup ==
    /\ pr.r.pc = "locked"
    /\ pr' = [pr EXCEPT
                !.r.pc = "read",
                !.r.found = UpdatePath \in DOMAIN cm.fileModels,
                !.r.fm = IF UpdatePath \in DOMAIN cm.fileModels
                         THEN cm.fileModels[UpdatePath] ELSE NoModel]
    /\ UNCHANGED cm
    /\ updateUnchanged

\* the deferred cm.mu.RUnlock() and the return
ReadReturn ==
    /\ pr.r.pc = "read"
    /\ pr' = [pr EXCEPT !.r.pc = "returned", !.mu.readers = @ - 1]
    /\ UNCHANGED cm
    /\ updateUnchanged

\* the caller takes the result; the next call may begin
ReadAgain ==
    /\ pr.r.pc = "returned"
    /\ pr' = [pr EXCEPT !.r.pc = "idle"]
    /\ UNCHANGED cm
    /\ updateUnchanged

NextUpdate ==
    \/ UpdateBuild
    \/ UpdateGlobal
    \/ UpdateLock
    \/ UpdateStore
    \/ UpdateUnlock
    \/ ReadCall
    \/ ReadLock
    \/ ReadLookup
    \/ ReadReturn
    \/ ReadAgain

SpecUpdate == InitUpdate /\ [][NextUpdate]_vars

\* C24: a GetFileEntropy or GetFileModel call that runs while an UpdateFile
\* of the same present path is under way returns the complete old file model
\* or the complete new one (the entropy of one of them), never file-not-found
\* and never a mix of their fields
C24_OldOrNew ==
    (pr.r.pc = "returned" /\ pr.r.during) =>
        /\ pr.r.found
        /\ pr.r.fm \in pr.r.complete

\* a call that ran during an update returned the new model, which differs
\* from the old one in token count and entropy
C24_Witness ==
    /\ pr.r.pc = "returned"
    /\ pr.r.during
    /\ pr.r.found
    /\ pr.r.fm.TokenCount # pr.r.old.TokenCount
    /\ pr.r.fm.Entropy # pr.r.old.Entropy

(***************************************************************************)
(* Prune at its two ends, applied to every trie SpecTrie reaches.          *)
(***************************************************************************)
\* a threshold above every count the trie can hold
PruneAll == MaxTrieOps + 1

\* u returns the count t returns for every n-gram, and has t's totalNGrams
unchangedCounts(t, u) ==
    /\ \A g \in ProperNGrams : GetCount(u, g) = GetCount(t, g)
    /\ u.totalNGrams = t.totalNGrams

prunesEverything(t) ==
    /\ \A g \in ProperNGrams : GetCount(Prune(t, PruneAll), g) = 0
    /\ \A q \in DOMAIN Prune(t, PruneAll).root : Prune(t, PruneAll).root[q] = 0
    /\ Prune(t, PruneAll).totalNGrams = 0
    /\ PruneResult(t, PruneAll).pruned = t.totalNGrams

\* C25 as stated: Prune(1) changes no node, no count and not totalNGrams and
\* returns 0, also after Removes have left zero-count nodes; Prune(m) with m
\* above every stored count clears all counts, sets totalNGrams to 0 and
\* returns the previous totalNGrams
C25_PruneOneChangesNothing ==
    /\ Prune(trie, 1) = trie
    /\ PruneResult(trie, 1).pruned = 0
    /\ prunesEverything(trie)

\* C25 amended: Prune(1) changes no count and not totalNGrams and returns 0;
\* the only nodes it changes are nodes of count 0, which it deletes (the
\* zero-count nodes without children that Removes have left, and the
\* ancestors this leaves childless); Prune(m) with m above every stored
\* count clears all counts, sets totalNGrams to 0 and returns the previous
\* totalNGrams
C25_PruneOneKeepsCounts ==
    /\ unchangedCounts(trie, Prune(trie, 1))
    /\ PruneResult(trie, 1).pruned = 0
    /\ DOMAIN Prune(trie, 1).root \subseteq DOMAIN trie.root
    /\ \A q \in DOMAIN Prune(trie, 1).root : Prune(trie, 1).root[q] = trie.root[q]
    /\ \A q \in DOMAIN trie.root \ DOMAIN Prune(trie, 1).root : trie.root[q] = 0
    /\ \A q \in DOMAIN trie.root :
          (children(trie.root, q) # {} /\ \E c \in children(trie.root, q) : trie.root[c] > 0)
              => q \in DOMAIN Prune(trie, 1).root
    /\ prunesEverything(trie)

\* a Remove has left a zero-count node without children beside a counted
\* n-gram: Prune(1) deletes the one and keeps the other
C25_Witness ==
    /\ hist.removed
    /\ trie.totalNGrams > 0
    /\ Prune(trie, 1) # trie
    /\ \E q \in DOMAIN trie.root :
          /\ q # <<>>
          /\ trie.root[q] = 0
          /\ children(trie.root, q) = {}
          /\ q \notin DOMAIN Prune(trie, 1).root

(***************************************************************************)
(* Context counts against n-gram counts, in SpecModelOps.                  *)
(***************************************************************************)
ModelContexts == SeqsUpTo(Tokens, MaxNGramLen - 1) \ {<<>>}

\* the sum over all tokens t of the n-gram count of c followed by t
followersCount(m, c) ==
    SumOver([t \in Tokens |-> GetCount(m.ngramTrie, Append(c, t))], Tokens)

\* C26: in a model without bloom, after completed Add, Remove and Prune
\* calls, the context count of every context c is at least the sum over all
\* tokens t of the n-gram count of c followed by t
C26_ContextCoversNGrams ==
    ~model.ngramTrie.useBloom =>
        \A c \in ModelContexts :
            GetCount(model.contextTrie, c) >= followersCount(model, c)

\* C26, as long as nothing was removed
C26_ContextCoversNGramsNoRemove ==
    (~model.ngramTrie.useBloom /\ mhist.removed = 0) =>
        \A c \in ModelContexts :
            GetCount(model.contextTrie, c) >= followersCount(model, c)

(***************************************************************************)
(* SpecMapModel: the map-based NGramModel with one CrossEntropy caller and *)
(* one caller of Add, Remove and Merge.  m.mu is a sync.RWMutex: Lock      *)
(* first announces the writer (pending) and then waits for the read        *)
(* holders to leave; RLock waits while a writer is pending or holds the    *)
(* lock.  n-gram keys are kept as token sequences (String joins them with  *)
(* spaces).                                                                *)
(***************************************************************************)
MapStreams == {<<"ID">>, <<"ID", "func">>, <<"func", "ID", "func">>}

NewNGramModel(n) ==
    [n |-> IF n < 1 THEN 3 ELSE n,
     vocabulary |-> <<>>,
     ngramCounts |-> <<>>,
     contextCounts |-> <<>>,
     totalTokens |-> 0]

countOf(counts, key) == IF key \in DOMAIN counts THEN counts[key] ELSE 0

raise(counts, key, by) ==
    [k \in DOMAIN counts \cup {key} |->
        IF k = key THEN countOf(counts, key) + by ELSE counts[k]]

\* count > 1: decrement; count <= 1: delete; no entry: nothing
lower(counts, key) ==
    IF key \notin DOMAIN counts THEN counts
    ELSE IF counts[key] > 1 THEN [counts EXCEPT ![key] = @ - 1]
    ELSE [k \in DOMAIN counts \ {key} |-> counts[k]]

RECURSIVE mapAddTokens(_, _)
mapAddTokens(m, tokens) ==
    IF tokens = <<>> THEN m
    ELSE mapAddTokens([m EXCEPT !.vocabulary = raise(@, Head(tokens), 1),
                                !.totalTokens = @ + 1], Tail(tokens))

RECURSIVE mapAddNGrams(_, _)
mapAddNGrams(m, ngrams) ==
    IF ngrams = <<>> THEN m
    ELSE LET ng == Head(ngrams)
         IN mapAddNGrams(
                [m EXCEPT !.ngramCounts = raise(@, ng, 1),
                          !.contextCounts = IF Len(ng) > 1
                                            THEN raise(@, SubSeq(ng, 1, Len(ng) - 1), 1)
                                            ELSE @],
                Tail(ngrams))

\* NGramModel.Add
mapAdd(m, tokens) == mapAddNGrams(mapAddTokens(m, tokens), extractNGrams(m.n, tokens))

RECURSIVE mapRemoveTokens(_, _)
mapRemoveTokens(m, tokens) ==
    IF tokens = <<>> THEN m
    ELSE mapRemoveTokens(
             IF Head(tokens) \in DOMAIN m.vocabulary
             THEN [m EXCEPT !.vocabulary = lower(@, Head(tokens)), !.totalTokens = @ - 1]
             ELSE m,
             Tail(tokens))

RECURSIVE mapRemoveNGrams(_, _)
mapRemoveNGrams(m, ngrams) ==
    IF ngrams = <<>> THEN m
    ELSE LET ng == Head(ngrams)
         IN mapRemoveNGrams(
                [m EXCEPT !.ngramCounts = lower(@, ng),
                          !.contextCounts = IF Len(ng) > 1
                                            THEN lower(@, SubSeq(ng, 1, Len(ng) - 1))
                                            ELSE @],
                Tail(ngrams))

\* NGramModel.Remove
mapRemove(m, tokens) ==
    mapRemoveNGrams(mapRemoveTokens(m, tokens), extractNGrams(m.n, tokens))

mergeCounts(counts, other) ==
    [k \in DOMAIN counts \cup DOMAIN other |-> countOf(counts, k) + countOf(other, k)]

\* NGramModel.Merge, past its guard and under both locks
mapMerge(m, other) ==
    [m EXCEPT !.vocabulary = mergeCounts(@, other.vocabulary),
              !.totalTokens = @ + other.totalTokens,
              !.ngramCounts = mergeCounts(@, other.ngramCounts),
              !.contextCounts = mergeCounts(@, other.contextCounts)]

\* NGramModel.Probability, under the read lock
mapProbability(m, token, context) ==
    Smooth("AddK", countOf(m.ngramCounts, Append(context, token)),
           countOf(m.contextCounts, context), Cardinality(DOMAIN m.vocabulary))

\* CrossEntropy: prob > 0 adds log2(prob) to the sum and one to the count
addLogProb(acc, prob) ==
    IF prob.den = 0 THEN [num |-> 1, den |-> 0, cnt |-> acc.cnt + 1]
    ELSE IF prob.num > 0
    THEN IF acc.den = 0 THEN [acc EXCEPT !.cnt = @ + 1]
         ELSE [num |-> Frac(acc.num * prob.num, acc.den * prob.den).num,
               den |-> Frac(acc.num * prob.num, acc.den * prob.den).den,
               cnt |-> acc.cnt + 1]
    ELSE acc

applyWrite(m, op, tokens) ==
    CASE op = "Add" -> mapAdd(m, tokens)
      [] op = "Remove" -> mapRemove(m, tokens)
      [] op = "Merge" -> mapMerge(m, mapAdd(NewNGramModel(m.n), tokens))

InitMapModel ==
    /\ \E n \in 1 .. MaxNGramLen :
          pr = [m |-> NewNGramModel(n),
                mu |-> [readers |-> 0, pending |-> FALSE, writer |-> FALSE],
                r |-> [pc |-> "idle", tokens |-> <<>>, i |-> 1, entropy |-> EntropyZero],
                w |-> [pc |-> "idle", op |-> "", tokens |-> <<>>],
                reads |-> 0,
                writes |-> 0]
    /\ trie = 0 /\ hist = 0 /\ model = 0 /\ mhist = 0
    /\ cm = 0 /\ disk = 0 /\ loaded = 0 /\ chist = 0
    /\ lk = 0 /\ tk = 0 /\ fs = 0 /\ fn = 0 /\ ing = 0

mapUnchanged ==
    UNCHANGED <<trie, hist, model, mhist, cm, disk, loaded, chist, lk, tk, fs, fn, ing>>

\* CrossEntropy is called with a non-empty stream
CrossEntropyCall ==
    \E tokens \in MapStreams :
        /\ pr.r.pc \in {"idle", "returned"}
        /\ pr.reads < MaxMapReads
        /\ pr' = [pr EXCEPT !.reads = @ + 1,
                            !.r = [pc |-> "called", tokens |-> tokens, i |-> 1,
                                   entropy |-> EntropyZero]]
        /\ mapUnchanged

\* CrossEntropy: m.mu.RLock()
CrossEntropyRLock ==
    /\ pr.r.pc = "called"
    /\ ~pr.mu.pending /\ ~pr.mu.writer
    /\ pr' = [pr EXCEPT !.r.pc = "loop", !.mu.readers = @ + 1]
    /\ mapUnchanged

\* the loop calls Probability, which calls m.mu.RLock() again
ProbabilityRLock ==
    /\ pr.r.pc = "loop"
    /\ pr.r.i <= Len(pr.r.tokens)
    /\ ~pr.mu.pending /\ ~pr.mu.writer
    /\ pr' = [pr EXCEPT !.r.pc = "probability", !.mu.readers = @ + 1]
    /\ mapUnchanged

\* Probability computes, releases its read lock and returns; prob > 0 is
\* added to the sum
ProbabilityReturn ==
    /\ pr.r.pc = "probability"
    /\ LET i == pr.r.i
           context == SubSeq(pr.r.tokens, Max(1, i - pr.m.n + 1), i - 1)
           prob == mapProbability(pr.m, pr.r.tokens[i], context)
       IN pr' = [pr EXCEPT !.r.pc = "loop",
                           !.r.i = @ + 1,
                           !.r.entropy = addLogProb(@, prob),
                           !.mu.readers = @ - 1]
    /\ mapUnchanged

\* the loop is over: the deferred m.mu.RUnlock() and the return
CrossEntropyReturn ==
    /\ pr.r.pc = "loop"
    /\ pr.r.i > Len(pr.r.tokens)
    /\ pr' = [pr EXCEPT !.r.pc = "returned", !.mu.readers = @ - 1]
    /\ mapUnchanged

\* Add, Remove or Merge: m.mu.Lock() announces the writer
WriteCall ==
    \E op \in {"Add", "Remove", "Merge"}, tokens \in MapStreams :
        /\ pr.w.pc = "idle"
        /\ pr.writes < MaxMapWrites
        /\ pr' = [pr EXCEPT !.writes = @ + 1,
                            !.w = [pc |-> "waiting", op |-> op, tokens |-> tokens],
                            !.mu.pending = TRUE]
        /\ mapUnchanged

\* m.mu.Lock() returns once the read holders have left
WriteLock ==
    /\ pr.w.pc = "waiting"
    /\ pr.mu.readers = 0
    /\ pr' = [pr EXCEPT !.w.pc = "locked", !.mu.pending = FALSE, !.mu.writer = TRUE]
    /\ mapUnchanged

\* the body of the writer and its deferred m.mu.Unlock()
WriteApply ==
    /\ pr.w.pc = "locked"
    /\ pr' = [pr EXCEPT !.m = applyWrite(@, pr.w.op, pr.w.tokens),
                        !.w.pc = "idle",
                        !.mu.writer = FALSE]
    /\ mapUnchanged

NextMapModel ==
    \/ CrossEntropyCall
    \/ CrossEntropyRLock
    \/ ProbabilityRLock
    \/ ProbabilityReturn
    \/ CrossEntropyReturn
    \/ WriteCall
    \/ WriteLock
    \/ WriteApply

SpecMapModel == InitMapModel /\ [][NextMapModel]_vars

\* every goroutine that can take a step eventually takes it
SpecMapModelFair ==
    /\ SpecMapModel
    /\ WF_vars(CrossEntropyRLock)
    /\ WF_vars(ProbabilityRLock)
    /\ WF_vars(ProbabilityReturn)
    /\ WF_vars(CrossEntropyReturn)
    /\ WF_vars(WriteLock)
    /\ WF_vars(WriteApply)

\* C27: every CrossEntropy call on the map-based model eventually returns,
\* also when Add, Remove or Merge run concurrently on the same model
C27_CrossEntropyReturns == (pr.r.pc = "called") ~> (pr.r.pc = "returned")

\* C27: CrossEntropy holding the read lock while Probability re-acquires it
\* never deadlocks with a writer waiting for the lock
C27_NoDeadlock ==
    ~(/\ pr.r.pc = "loop"
      /\ pr.r.i <= Len(pr.r.tokens)
      /\ pr.w.pc = "waiting")

(***************************************************************************)
(* Add followed by Remove of the same stream, applied to every model       *)
(* SpecModelOps reaches.                                                   *)
(***************************************************************************)
UndoStreams == MixedStreams \cup SeqsUpTo(Tokens, MaxNGramLen)

UndoProbes == SeqsUpTo(Tokens, MaxNGramLen)

\* a and b return the same counts and totals
sameCounts(a, b) ==
    /\ \A g \in UndoProbes :
          /\ GetCount(a.ngramTrie, g) = GetCount(b.ngramTrie, g)
          /\ GetCount(a.contextTrie, g) = GetCount(b.contextTrie, g)
          /\ GetCount(a.vocabulary, g) = GetCount(b.vocabulary, g)
    /\ a.ngramTrie.totalNGrams = b.ngramTrie.totalNGrams
    /\ a.contextTrie.totalNGrams = b.contextTrie.totalNGrams
    /\ a.vocabulary.totalNGrams = b.vocabulary.totalNGrams
    /\ a.totalTokens = b.totalTokens

\* C28: on a model without bloom, Add(ts) immediately followed by Remove(ts)
\* restores every n-gram, context and unigram count, totalNGrams of each trie
\* and total_tokens
C28_AddRemoveRestores ==
    ~model.ngramTrie.useBloom =>
        \A ts \in UndoStreams : sameCounts(RemoveTokens(Add(model, ts), ts), model)

\* a model without bloom that holds counts, reached after a Remove, on which
\* Add then Remove of a stream new to it leaves interned ids and zero-count
\* nodes behind
C28_Witness ==
    /\ ~model.ngramTrie.useBloom
    /\ model.n = 2
    /\ mhist.removed > 0
    /\ model.totalTokens > 0
    /\ \E ts \in UndoStreams :
          /\ Len(ts) >= 2
          /\ Add(model, ts).ngramTrie.totalNGrams > model.ngramTrie.totalNGrams
          /\ Add(model, ts).contextTrie.totalNGrams > model.contextTrie.totalNGrams
          /\ RemoveTokens(Add(model, ts), ts) # model

(***************************************************************************)
(* Queries and the end of the walk, in SpecIngest.                         *)
(***************************************************************************)
\* C29: GetCorpusManager never returns a corpus manager that
\* ProcessRepository is still populating
C29_NoPopulatingCorpus == ing.seen.found => ~ing.seen.populating

busyWorkers == {w \in 1 .. NumThreads : ing.worker[w].busy}

\* the files the walk has not sent yet
notEnqueued == {i \in 1 .. MaxRepoFiles : i > MaxRepoFiles - Len(ing.pending)}

\* C30: every file the walk has enqueued is passed to the walk function
\* exactly once (never twice, and once by the time WalkDirTree returns), and
\* SaveCorpusManager starts only after every AddFile call has returned, the
\* work queue being closed and all workers finished
C30_OnceAndSaveLast ==
    /\ \A i \in 1 .. MaxRepoFiles : ing.calls[i] <= 1
    /\ \A i \in notEnqueued : ing.calls[i] = 0
    /\ (ing.result # "running" \/ disk.exists) =>
          /\ ing.pending = <<>>
          /\ \A i \in 1 .. MaxRepoFiles : ing.calls[i] = 1
          /\ busyWorkers = {}
          /\ ing.workQueue = <<>>
          /\ ing.closed
          /\ ing.exited = 1 .. NumThreads

\* ProcessRepository has returned with the model saved, three files walked
\* and at least two of them ingested
C30_Witness ==
    /\ ing.result = "nil"
    /\ disk.exists
    /\ \A i \in 1 .. MaxRepoFiles : ing.calls[i] = 1
    /\ Cardinality(DOMAIN cm.fileModels) >= 2

====
